---- MODULE Spec2Model ----
(***************************************************************************)
(* A model of the COBOL structural parser of src/analysis/cobol_parser.py: *)
(* the line normalizer (clean_code), the segment splitter (split_by_regex),*)
(* the five compiled patterns, the call-graph renderer                     *)
(* (generate_mermaid_graph) and parse_program, which is modelled as a      *)
(* state machine stepping through its division loop.                       *)
(*                                                                         *)
(* A text is a sequence of one-character strings, so that columns,         *)
(* offsets and slices are those of the Python code (1-based here).         *)
(***************************************************************************)
EXTENDS Integers, Sequences, FiniteSets, TLC

\* ------------------------------------------------------------- characters

UpperLetters ==
  {"A","B","C","D","E","F","G","H","I","J","K","L","M",
   "N","O","P","Q","R","S","T","U","V","W","X","Y","Z"}

Digits == {"0","1","2","3","4","5","6","7","8","9"}

\* str.upper() on the ASCII letters.
UpperMap ==
  ("a" :> "A") @@ ("b" :> "B") @@ ("c" :> "C") @@ ("d" :> "D") @@ ("e" :> "E") @@
  ("f" :> "F") @@ ("g" :> "G") @@ ("h" :> "H") @@ ("i" :> "I") @@ ("j" :> "J") @@
  ("k" :> "K") @@ ("l" :> "L") @@ ("m" :> "M") @@ ("n" :> "N") @@ ("o" :> "O") @@
  ("p" :> "P") @@ ("q" :> "Q") @@ ("r" :> "R") @@ ("s" :> "S") @@ ("t" :> "T") @@
  ("u" :> "U") @@ ("v" :> "V") @@ ("w" :> "W") @@ ("x" :> "X") @@ ("y" :> "Y") @@
  ("z" :> "Z")

LowerLetters == DOMAIN UpperMap

UpperChar(c) == IF c \in LowerLetters THEN UpperMap[c] ELSE c

\* str.upper()
Upper(s) == [k \in 1..Len(s) |-> UpperChar(s[k])]

\* The class [ \t] of the patterns.
BlankChars == {" ", "\t"}

\* The class [ \t\.] of RE_DIVISION.
SepChars == {" ", "\t", "."}

\* The class [A-Z0-9-] under re.IGNORECASE.
NameChars == UpperLetters \cup LowerLetters \cup Digits \cup {"-"}

\* The class [A-Z0-9] under re.IGNORECASE.
AlnumChars == UpperLetters \cup LowerLetters \cup Digits

\* What str.strip() and str.rstrip() remove.
SpaceChars == {" ", "\t", "\n", "\r"}

\* ---------------------------------------------------------- string helpers

\* The first position at or after p whose character is not in cls
\* (the end of a greedy run of the class).
RunEnd(s, p, cls) ==
  IF p > Len(s) THEN p
  ELSE CHOOSE q \in p..(Len(s) + 1) :
         /\ q > Len(s) \/ s[q] \notin cls
         /\ \A r \in p..(q - 1) : s[r] \in cls

\* The last position at or before p whose character is not in cls.
RunStart(s, p, cls) ==
  CHOOSE q \in 0..p :
    /\ q = 0 \/ s[q] \notin cls
    /\ \A r \in (q + 1)..p : s[r] \in cls

\* A literal of a pattern at position p, under re.IGNORECASE.
HasLit(s, p, w) ==
  /\ p + Len(w) - 1 <= Len(s)
  /\ \A k \in 1..Len(w) : UpperChar(s[p + k - 1]) = w[k]

\* s[a:b] of Python for 1-based a and exclusive 1-based b.
Slice(s, a, b) == SubSeq(s, a, b - 1)

\* str.strip()
Strip(s) ==
  LET a == RunEnd(s, 1, SpaceChars)
      b == RunStart(s, Len(s), SpaceChars)
  IN  IF a > b THEN <<>> ELSE SubSeq(s, a, b)

\* str.rstrip()
RStrip(s) == SubSeq(s, 1, RunStart(s, Len(s), SpaceChars))

\* str.startswith()
StartsWith(s, w) ==
  /\ Len(w) <= Len(s)
  /\ \A k \in 1..Len(w) : s[k] = w[k]

\* The position of the next "\n" at or after p, Len(s) + 1 when there is none.
NextNl(s, p) ==
  IF p > Len(s) THEN p
  ELSE CHOOSE q \in p..(Len(s) + 1) :
         /\ q > Len(s) \/ s[q] = "\n"
         /\ \A r \in p..(q - 1) : s[r] # "\n"

\* str.split('\n'): the lines of s from position p on.
RECURSIVE SplitFrom(_, _)
SplitFrom(s, p) ==
  LET e == NextNl(s, p)
  IN  IF e > Len(s) THEN << Slice(s, p, e) >>
      ELSE << Slice(s, p, e) >> \o SplitFrom(s, e + 1)

SplitLines(s) == SplitFrom(s, 1)

\* "\n".join(lines)
RECURSIVE JoinLines(_)
JoinLines(lines) ==
  IF Len(lines) = 0 THEN <<>>
  ELSE IF Len(lines) = 1 THEN lines[1]
  ELSE lines[1] \o <<"\n">> \o JoinLines(Tail(lines))

\* content.replace('\r\n', '\n'): every "\r" that a "\n" follows is removed.
ReplaceCRLF(s) ==
  LET kept == SelectSeq([p \in 1..Len(s) |-> p],
                        LAMBDA p : ~(s[p] = "\r" /\ p < Len(s) /\ s[p + 1] = "\n"))
  IN  [k \in 1..Len(kept) |-> s[kept[k]]]

\* The positions where ^ matches under re.MULTILINE, in increasing order.
RECURSIVE LineStartsFrom(_, _)
LineStartsFrom(s, p) ==
  IF p > Len(s) THEN <<>>
  ELSE LET e == NextNl(s, p)
       IN  <<p>> \o (IF e >= Len(s) THEN <<>> ELSE LineStartsFrom(s, e + 1))

LineStarts(s) == LineStartsFrom(s, 1)

\* ---------------------------------------------------------------- patterns
\* A match is [start, end, name]: the match is s[start..end-1] and name is
\* group(1) as matched.  NoMatch is the failure of a pattern at a position.

NoMatch == [start |-> 0, end |-> 0, name |-> <<>>]

KW_IDENTIFICATION == <<"I","D","E","N","T","I","F","I","C","A","T","I","O","N">>
KW_ENVIRONMENT == <<"E","N","V","I","R","O","N","M","E","N","T">>
KW_DATA == <<"D","A","T","A">>
KW_PROCEDURE == <<"P","R","O","C","E","D","U","R","E">>
KW_USING == <<"U","S","I","N","G">>
KW_CHAINING == <<"C","H","A","I","N","I","N","G">>
KW_DIVISION == <<"D","I","V","I","S","I","O","N">>
KW_SECTION == <<"S","E","C","T","I","O","N">>
KW_PROGRAM_ID == <<"P","R","O","G","R","A","M","-","I","D",".">>
KW_PERFORM == <<"P","E","R","F","O","R","M">>

\* The first of two attempts that matched (an alternation gives up its first
\* branch only when the rest of the pattern fails after it).
OrElse(first, second) == IF first # NoMatch THEN first ELSE second

\* [ \t]*DIVISION[ \t]*\. at position q: the end of the match, 0 on failure.
DivisionTail(s, q) ==
  LET d == RunEnd(s, q, BlankChars)
  IN  IF ~HasLit(s, d, KW_DIVISION) THEN 0
      ELSE LET e == RunEnd(s, d + Len(KW_DIVISION), BlankChars)
           IN  IF e <= Len(s) /\ s[e] = "." THEN e + 1 ELSE 0

\* (\([A-Z0-9-]+\))? at position e, when the rest of the pattern matches after
\* it: the end of the parenthesised part, e when it is left out.
ParenEnd(s, e) ==
  LET c == RunEnd(s, e + 1, NameChars)
  IN  IF /\ e <= Len(s) /\ s[e] = "("
         /\ c > e + 1 /\ c <= Len(s) /\ s[c] = ")"
         /\ DivisionTail(s, c + 1) # 0
      THEN c + 1 ELSE e

\* The end of group 1 when [A-Z0-9-]+ ends at e, r being the end of the run of
\* name characters: only the whole run can be followed by "(".
GroupEnd(s, e, r) == IF e = r THEN ParenEnd(s, e) ELSE e

\* << end of group 1, end of the match >> for the longest name, among those
\* ending in `ends`, after which the rest of the pattern matches.
LongestOperand(s, r, ends) ==
  IF ends = {} THEN << 0, 0 >>
  ELSE LET e == CHOOSE x \in ends : \A y \in ends : y <= x
       IN  << GroupEnd(s, e, r), DivisionTail(s, GroupEnd(s, e, r)) >>

\* [A-Z0-9-]+(\([A-Z0-9-]+\))?[ \t]*DIVISION[ \t]*\. with the name starting at
\* position n and its run of name characters ending at r.  The greedy name
\* gives characters back one at a time until the rest matches.
OperandUpTo(s, n, r) ==
  LongestOperand(s, r, { e \in (n + 1)..r : DivisionTail(s, GroupEnd(s, e, r)) # 0 })

ProcedureOperand(s, n) == OperandUpTo(s, n, RunEnd(s, n, NameChars))

\* (USING|CHAINING)?[ \t]*<operand> at position q: with the keyword first,
\* without it when the pattern fails with it.
KeywordEnd(s, q) ==
  IF HasLit(s, q, KW_USING) THEN q + Len(KW_USING)
  ELSE IF HasLit(s, q, KW_CHAINING) THEN q + Len(KW_CHAINING)
  ELSE 0

OperandAfterKeyword(s, kwEnd) ==
  IF kwEnd = 0 THEN << 0, 0 >>
  ELSE ProcedureOperand(s, RunEnd(s, kwEnd, BlankChars))

FirstOperand(first, second) == IF first[2] # 0 THEN first ELSE second

\* PROCEDURE[ \t\.]+(USING|CHAINING)?[ \t]*[A-Z0-9-]+(\([A-Z0-9-]+\))? and the
\* tail, q being the position after PROCEDURE and sepEnd the end of [ \t\.]+.
OperandFrom(s, q, sepEnd) ==
  IF sepEnd = q THEN << 0, 0 >>
  ELSE FirstOperand(OperandAfterKeyword(s, KeywordEnd(s, sepEnd)),
                    ProcedureOperand(s, sepEnd))

ProcedureWithOperand(s, q) == OperandFrom(s, q, RunEnd(s, q, SepChars))

\* One keyword alternative w of group 1 at position k, then the tail.
PlainDivision(s, p, k, w) ==
  IF HasLit(s, k, w) /\ DivisionTail(s, k + Len(w)) # 0
  THEN [start |-> p, end |-> DivisionTail(s, k + Len(w)),
        name |-> Slice(s, k, k + Len(w))]
  ELSE NoMatch

\* The second alternative of group 1 at position k.
OperandDivision(s, p, k, operand) ==
  IF HasLit(s, k, KW_PROCEDURE) /\ operand[2] # 0
  THEN [start |-> p, end |-> operand[2], name |-> Slice(s, k, operand[1])]
  ELSE NoMatch

\* RE_DIVISION at a line start p, k being the end of the leading [ \t]*.
DivisionAt(s, p, k) ==
  OrElse(PlainDivision(s, p, k, KW_IDENTIFICATION),
  OrElse(PlainDivision(s, p, k, KW_ENVIRONMENT),
  OrElse(PlainDivision(s, p, k, KW_DATA),
  OrElse(OperandDivision(s, p, k, ProcedureWithOperand(s, k + Len(KW_PROCEDURE))),
         PlainDivision(s, p, k, KW_PROCEDURE)))))

RE_DIVISION(s, p) == DivisionAt(s, p, RunEnd(s, p, BlankChars))

\* RE_SECTION at a line start p.
RE_SECTION(s, p) ==
  LET k == RunEnd(s, p, BlankChars)
      r == RunEnd(s, k, NameChars)
      w == RunEnd(s, r, BlankChars)
      e == RunEnd(s, w + Len(KW_SECTION), BlankChars)
  IN  IF r > k /\ w > r /\ HasLit(s, w, KW_SECTION) /\ e <= Len(s) /\ s[e] = "."
      THEN [start |-> p, end |-> e + 1, name |-> Slice(s, k, r)]
      ELSE NoMatch

\* RE_PARAGRAPH at a line start p.
RE_PARAGRAPH(s, p) ==
  LET k == RunEnd(s, p, BlankChars)
      r == RunEnd(s, k + 1, NameChars)
      w == RunEnd(s, r, BlankChars)
      x == RunEnd(s, w + 1, BlankChars)
  IN  IF /\ k <= Len(s) /\ s[k] \in AlnumChars
         /\ w <= Len(s) /\ s[w] = "."
         /\ ~(x <= Len(s) /\ s[x] = ".")
      THEN [start |-> p, end |-> w + 1, name |-> Slice(s, k, r)]
      ELSE NoMatch

\* RE_PROGRAM_ID at a line start p.
RE_PROGRAM_ID(s, p) ==
  LET k == RunEnd(s, p, BlankChars)
      w == RunEnd(s, k + Len(KW_PROGRAM_ID), BlankChars)
      r == RunEnd(s, w, NameChars)
      e == RunEnd(s, r, BlankChars)
  IN  IF HasLit(s, k, KW_PROGRAM_ID) /\ r > w /\ e <= Len(s) /\ s[e] = "."
      THEN [start |-> p, end |-> e + 1, name |-> Slice(s, w, r)]
      ELSE NoMatch

\* RE_PERFORM at any position p.
RE_PERFORM(s, p) ==
  LET w == RunEnd(s, p + Len(KW_PERFORM), BlankChars)
      r == RunEnd(s, w + 1, NameChars)
  IN  IF /\ HasLit(s, p, KW_PERFORM) /\ w > p + Len(KW_PERFORM)
         /\ w <= Len(s) /\ s[w] \in AlnumChars
      THEN [start |-> p, end |-> r, name |-> Slice(s, w, r)]
      ELSE NoMatch

\* The pattern named regex at position p.
MatchAt(regex, s, p) ==
  CASE regex = "RE_DIVISION" -> RE_DIVISION(s, p)
    [] regex = "RE_SECTION" -> RE_SECTION(s, p)
    [] regex = "RE_PARAGRAPH" -> RE_PARAGRAPH(s, p)
    [] regex = "RE_PROGRAM_ID" -> RE_PROGRAM_ID(s, p)

\* The list holding a match, empty for NoMatch.
Found(m) == IF m = NoMatch THEN <<>> ELSE << m >>

\* list(regex.finditer(text)) for a pattern anchored by ^: every match lies
\* within one line, so the matches are those at the line starts, in order.
RECURSIVE MatchesAt(_, _, _)
MatchesAt(regex, s, starts) ==
  IF starts = <<>> THEN <<>>
  ELSE Found(MatchAt(regex, s, Head(starts))) \o MatchesAt(regex, s, Tail(starts))

FindIter(regex, s) == MatchesAt(regex, s, LineStarts(s))

\* The least element of a non-empty set of positions.
Least(S) == CHOOSE q \in S : \A r \in S : q <= r

\* A scan that stops at the leftmost match, as RE_PERFORM.search would.
FirstCallOf(s, hits) ==
  IF hits = {} THEN <<>> ELSE << Upper(RE_PERFORM(s, Least(hits)).name) >>

FindFirstCall(s, p) == FirstCallOf(s, { q \in p..Len(s) : RE_PERFORM(s, q) # NoMatch })

\* RE_PERFORM.findall(code), uppercased: the leftmost match at or after p,
\* then the scan goes on from its end.
RECURSIVE FindCalls(_, _)
RECURSIVE CallsFrom(_, _)
CallsFrom(s, hits) ==
  IF hits = {} THEN <<>>
  ELSE << Upper(RE_PERFORM(s, Least(hits)).name) >>
       \o FindCalls(s, RE_PERFORM(s, Least(hits)).end)

FindCalls(s, p) == CallsFrom(s, { q \in p..Len(s) : RE_PERFORM(s, q) # NoMatch })

\* ------------------------------------------------------------------ helpers

DEFAULT == <<"D","E","F","A","U","L","T">>
HEADER == <<"H","E","A","D","E","R">>
PROCEDURE == <<"P","R","O","C","E","D","U","R","E">>
UNKNOWN == <<"U","N","K","N","O","W","N">>

\* Optional[str] = None: no text is a sequence holding this element.
None == << "None" >>

\* A line kept with all its columns from 7 on, whatever its length.
CleanLineUncut(line) ==
  IF Len(line) > 7 /\ (line[7] = "*" \/ UpperChar(line[7]) = "D") THEN <<>>
  ELSE IF Len(line) > 6 THEN << RStrip(SubSeq(line, 7, Len(line))) >>
  ELSE << RStrip(line) >>

\* One line of clean_code: no line when it is dropped, else the line kept.
CleanLine(line) ==
  IF Len(line) > 7 /\ (line[7] = "*" \/ UpperChar(line[7]) = "D") THEN <<>>
  ELSE IF Len(line) >= 80 THEN << RStrip(SubSeq(line, 7, 72)) >>
  ELSE IF Len(line) > 6 THEN << RStrip(SubSeq(line, 7, Len(line))) >>
  ELSE << RStrip(line) >>

RECURSIVE CleanLines(_)
CleanLines(code_lines) ==
  IF code_lines = <<>> THEN <<>>
  ELSE CleanLine(Head(code_lines)) \o CleanLines(Tail(code_lines))

clean_code(code_lines) == Strip(JoinLines(CleanLines(code_lines)))

\* Lines 56-76 of split_by_regex, `matches` being list(regex.finditer(text)).
EndPos(text, matches, i) ==
  IF i + 1 <= Len(matches) THEN matches[i + 1].start ELSE Len(text) + 1

\* A HEADER part made whether or not text precedes the first match.
HeaderPartAlways(text, matches) ==
  << [name |-> HEADER, code |-> Slice(text, 1, matches[1].start)] >>

HeaderPart(text, matches) ==
  IF matches[1].start > 1
  THEN << [name |-> HEADER, code |-> Slice(text, 1, matches[1].start)] >>
  ELSE <<>>

\* A split whose segment without matches is named HEADER.
SplitAtAsHeader(text, matches) ==
  IF matches = <<>> THEN << [name |-> HEADER, code |-> text] >>
  ELSE HeaderPart(text, matches) \o
       [i \in 1..Len(matches) |->
          [name |-> Upper(Strip(matches[i].name)),
           code |-> Strip(Slice(text, matches[i].end, EndPos(text, matches, i)))]]

SplitAt(text, matches) ==
  IF matches = <<>> THEN << [name |-> DEFAULT, code |-> text] >>
  ELSE HeaderPart(text, matches) \o
       [i \in 1..Len(matches) |->
          [name |-> Upper(Strip(matches[i].name)),
           code |-> Strip(Slice(text, matches[i].end, EndPos(text, matches, i)))]]

\* A split that returns no segment, instead of a DEFAULT one, without matches.
SplitWithoutDefault(text, regex) ==
  IF FindIter(regex, text) = <<>> THEN <<>> ELSE SplitAt(text, FindIter(regex, text))

split_by_regex(text, regex) == SplitAt(text, FindIter(regex, text))

\* The paragraphs of a division, section after section.
RECURSIVE ConcatAll(_)
ConcatAll(seqs) ==
  IF seqs = <<>> THEN <<>> ELSE Head(seqs) \o ConcatAll(Tail(seqs))

DivisionParagraphs(division) ==
  ConcatAll([k \in 1..Len(division.sections) |-> division.sections[k].paragraphs])

\* The (caller, callee) pairs of a list of paragraphs, in the order
\* generate_mermaid_graph appends their lines.
CallPairs(paras) ==
  ConcatAll([k \in 1..Len(paras) |->
               [j \in 1..Len(paras[k].calls) |-> << paras[k].name, paras[k].calls[j] >>]])

\* The pairs of a list, each kept at its first place only.
FirstPlaces(pairs) ==
  SelectSeq([k \in 1..Len(pairs) |-> k], LAMBDA k : \A j \in 1..(k - 1) : pairs[j] # pairs[k])

DistinctPairs(pairs) == [i \in 1..Len(FirstPlaces(pairs)) |-> pairs[FirstPlaces(pairs)[i]]]

\* Edges drawn once per distinct (caller, callee) pair.
GraphEdgesDistinct(division) == DistinctPairs(CallPairs(DivisionParagraphs(division)))

GraphEdges(division) == CallPairs(DivisionParagraphs(division))

\* Nodes for the defined paragraphs only.
NodesDefinedOnly(paras) == { paras[k].name : k \in 1..Len(paras) }

\* The set `nodes` of generate_mermaid_graph.
NodesOf(paras) ==
  { paras[k].name : k \in 1..Len(paras) } \cup
  UNION { { paras[k].calls[j] : j \in 1..Len(paras[k].calls) } : k \in 1..Len(paras) }

\* Nodes for the call targets only.
GraphNodesCalledOnly(division) ==
  UNION { { para.calls[j] : j \in 1..Len(para.calls) } :
            para \in { DivisionParagraphs(division)[k] : k \in 1..Len(DivisionParagraphs(division)) } }

GraphNodes(division) == NodesOf(DivisionParagraphs(division))

EdgeLine(caller_id, target_id) == <<" "," "," "," ">> \o caller_id \o <<" ","-","-",">"," ">> \o target_id \o <<";">>

NodeLine(node) == <<" "," "," "," ">> \o node \o <<"(","[">> \o node \o <<"]",")",";">>

\* The orders in which `for node in nodes` may visit a set of strings: the
\* iteration order of a Python set of str depends on the process's hash seed.
RECURSIVE IterationOrders(_)
IterationOrders(S) ==
  IF S = {} THEN { <<>> }
  ELSE UNION { { <<x>> \o rest : rest \in IterationOrders(S \ {x}) } : x \in S }

\* The lines of the graph for a list of edges and the nodes as visited.
GraphLines(edges, node_order) ==
  << <<"g","r","a","p","h"," ","T","D",";">> >>
  \o [k \in 1..Len(edges) |-> EdgeLine(edges[k][1], edges[k][2])]
  \o [k \in 1..Len(node_order) |-> NodeLine(node_order[k])]

\* generate_mermaid_graph, the nodes visited in node_order.
generate_mermaid_graph(division, node_order) ==
  JoinLines(GraphLines(GraphEdges(division), node_order))

\* A Paragraph of a segment, with the calls found in its code.
ParagraphOf(name, code) == [name |-> name, code |-> code, calls |-> FindCalls(code, 1)]

\* Lines 139-148: is the first segment a sentinel, and the paragraph made of it.
IsSentinel(part) == part.name = DEFAULT \/ part.name = HEADER

HeaderParagraph(section_name, first) ==
  IF IsSentinel(first) /\ Strip(first.code) # <<>>
  THEN << ParagraphOf(section_name \o <<"-","H","E","A","D","E","R">>, first.code) >>
  ELSE <<>>

\* Lines 149-150: the list the loop of line 153 iterates.
RestParts(paragraph_parts) ==
  IF IsSentinel(paragraph_parts[1]) /\ Len(paragraph_parts) > 1
  THEN Tail(paragraph_parts) ELSE paragraph_parts

\* Lines 153-166: the loop, skipping sentinel names in a list of several.
KeptParts(rest) ==
  SelectSeq(rest, LAMBDA part : ~(IsSentinel(part) /\ Len(rest) > 1))

NamedParagraphs(kept) ==
  [k \in 1..Len(kept) |-> ParagraphOf(kept[k].name, kept[k].code)]

ParagraphsOfParts(section_name, paragraph_parts) ==
  HeaderParagraph(section_name, paragraph_parts[1])
  \o NamedParagraphs(KeptParts(RestParts(paragraph_parts)))

\* Step 3 of parse_program for one section of the PROCEDURE division.
SectionParagraphs(section_name, section_code) ==
  ParagraphsOfParts(section_name, split_by_regex(section_code, "RE_PARAGRAPH"))

\* The name of a division left as the header gives it.
DivisionNameAsMatched(div_part) == div_part.name

\* Lines 121-125 of parse_program: the canonical name and the normalized text.
DivisionName(div_part) ==
  IF StartsWith(div_part.name, PROCEDURE) THEN PROCEDURE ELSE div_part.name

DivisionCode(div_part) == clean_code(SplitLines(div_part.code))

\* paragraph_parts[0] raises IndexError on an empty list.
SectionsRaise(section_parts) ==
  \E k \in 1..Len(section_parts) :
    split_by_regex(section_parts[k].code, "RE_PARAGRAPH") = <<>>

DivisionRaises(div_part) ==
  /\ DivisionName(div_part) = PROCEDURE
  /\ SectionsRaise(split_by_regex(DivisionCode(div_part), "RE_SECTION"))

\* Sections whose paragraphs are derived in every division.
SectionsWithParagraphs(div_name, section_parts) ==
  [k \in 1..Len(section_parts) |->
     [name |-> section_parts[k].name,
      code |-> section_parts[k].code,
      paragraphs |-> SectionParagraphs(section_parts[k].name, section_parts[k].code)]]

\* Steps 2 and 3 of parse_program's loop body.
SectionsOf(div_name, section_parts) ==
  [k \in 1..Len(section_parts) |->
     [name |-> section_parts[k].name,
      code |-> section_parts[k].code,
      paragraphs |->
        IF div_name = PROCEDURE
        THEN SectionParagraphs(section_parts[k].name, section_parts[k].code)
        ELSE <<>>]]

DivisionOf(div_name, code) ==
  [name |-> div_name,
   code |-> code,
   sections |-> SectionsOf(div_name, split_by_regex(code, "RE_SECTION")),
   call_graph_mermaid |-> None]

\* Steps 1-3 of parse_program's loop body for one division part.
BuildDivision(div_part) == DivisionOf(DivisionName(div_part), DivisionCode(div_part))

\* RE_PROGRAM_ID.search(content): the first match, NoMatch when there is none.
FirstMatch(found) == IF found = <<>> THEN NoMatch ELSE found[1]

SearchProgramId(content) == FirstMatch(FindIter("RE_PROGRAM_ID", content))

NameOfMatch(program_id_match) ==
  IF program_id_match = NoMatch THEN UNKNOWN ELSE Upper(program_id_match.name)

\* Lines 108-111 of parse_program.
ProgramName(content) == NameOfMatch(SearchProgramId(content))

\* ------------------------------------------------------------------ inputs

\* The longest raw text, in lines, and the longest PROCEDURE DIVISION body.
MaxLines == 2
MaxBody == 2

\* The deepest indentation of a statement in the two-paragraph programs.
MaxIndent == 8

\* Source lines of whole programs: headers in free format, with a sequence
\* number in columns 1-6, with operands, malformed; declarations; a comment.
RawLines ==
  { <<"I","D","E","N","T","I","F","I","C","A","T","I","O","N"," ","D","I","V","I","S","I","O","N",".">>,
    <<"1","2","3","4","5","6"," ","I","D","E","N","T","I","F","I","C","A","T","I","O","N"," ","D","I","V","I","S","I","O","N",".">>,
    <<"P","R","O","G","R","A","M","-","I","D","."," ","f","o","o",".">>,
    <<"1","2","3","4","5","6"," ","P","R","O","G","R","A","M","-","I","D","."," ","F","O","O",".">>,
    <<"P","R","O","G","R","A","M","-","I","D","."," ","B","A","R",".">>,
    <<"P","R","O","C","E","D","U","R","E"," ","D","I","V","I","S","I","O","N",".">>,
    <<"p","r","o","c","e","d","u","r","e"," ","u","s","i","n","g"," ","X"," ","d","i","v","i","s","i","o","n",".">>,
    <<"P","R","O","C","E","D","U","R","E"," ","D","I","V","I","S","I","O","N">>,
    <<" "," "," "," "," "," "," ","S","1"," ","S","E","C","T","I","O","N",".">>,
    <<" "," "," "," "," "," "," ","P","1",".">>,
    <<" "," "," "," "," "," ","*"," ","N","O","T","E",".">>,
    <<>> }

\* Lines of a PROCEDURE DIVISION body.
BodyLines ==
  { <<"P","1",".">>,
    <<" "," "," "," "," "," "," ","P","2",".">>,
    <<" "," "," "," ","P","E","R","F","O","R","M"," ","P","2",".">>,
    <<" "," "," "," "," "," "," ","P","E","R","F","O","R","M"," ","P","2"," ","P","E","R","F","O","R","M"," ","P","2",".">>,
    <<" "," "," "," "," "," "," ","P","E","R","F","O","R","M"," ","P","E","R","F","O","R","M"," ","P","1",".">>,
    <<" "," "," "," "," "," "," ","p","e","r","f","o","r","m"," ","p","1",".">>,
    <<" "," "," "," "," "," "," ","S","1"," ","S","E","C","T","I","O","N",".">>,
    <<" "," "," "," "," "," ","*"," ","P","9",".">>,
    <<" "," "," "," "," "," "," ","D","I","S","P","L","A","Y"," ","X",".">>,
    <<>> }

LineEndings == { <<"\n">>, <<"\r","\n">>, <<"\r">> }

SeqsUpTo(S, n) == UNION { [1..k -> S] : k \in 0..n }

\* Every line followed by the line ending.
Terminated(lines, eol) == ConcatAll([k \in 1..Len(lines) |-> lines[k] \o eol])

RawTexts ==
  { Terminated(lines, eol) : lines \in SeqsUpTo(RawLines, MaxLines), eol \in LineEndings }

ProcedureTexts ==
  { JoinLines(<< <<"P","R","O","C","E","D","U","R","E"," ","D","I","V","I","S","I","O","N",".">> >> \o body) : body \in SeqsUpTo(BodyLines, MaxBody) }

Spaces(n) == [k \in 1..n |-> " "]

\* A PROCEDURE DIVISION of two paragraphs in column 1, the first performing the
\* second, their statements indented by `indent` columns.
TwoParagraphs(p1, p2, indent) ==
  JoinLines(<< <<"P","R","O","C","E","D","U","R","E"," ","D","I","V","I","S","I","O","N",".">>,
               p1 \o <<".">>,
               Spaces(indent) \o <<"P","E","R","F","O","R","M"," ">> \o p2 \o <<".">>,
               p2 \o <<".">>,
               Spaces(indent) \o <<"D","I","S","P","L","A","Y"," ","'","X","'",".">> >>)

ParagraphNames == { << <<"P","1">>, <<"P","2">> >>, << <<"M","A","I","N","-","P","A","R","A">>, <<"S","U","B","-","P","A","R","A">> >> }

TwoParagraphTexts ==
  { TwoParagraphs(names[1], names[2], indent) : names \in ParagraphNames, indent \in 1..MaxIndent }

\* A fixed-format line of 82 characters: a sequence number, a statement, blanks
\* up to column 72 and text from column 73 on.
LongLine == <<"0","0","0","1","0","0"," "," "," "," "," ","P","E","R","F","O","R","M"," ","P","2",".">> \o Spaces(50) \o <<"P","E","R","F","O","R","M"," ","P","9">>

\* Fixed-format lines for the line normalizer: comment and debug markers in
\* column 7 (on a line of exactly 7 characters too), trailing blanks, columns
\* beyond 72.
FixedLines ==
  { <<" "," "," "," "," "," ","*">>,
    <<" "," "," "," "," "," ","*"," ","X",".">>,
    <<" "," "," "," "," "," ","d"," ","P","E","R","F","O","R","M"," ","P","3",".">>,
    <<" "," "," "," "," "," "," ","P","2","."," "," ">>,
    <<"P","3","."," "," ">>,
    LongLine }

\* A PROCEDURE DIVISION whose first paragraph is followed by fixed-format lines.
FixedTexts ==
  { JoinLines(<< <<"P","R","O","C","E","D","U","R","E"," ","D","I","V","I","S","I","O","N",".">>, <<"P","1",".">> >> \o body) : body \in SeqsUpTo(FixedLines, MaxLines) }

\* Sequence-numbered lines of a PROCEDURE DIVISION body: paragraph headers,
\* two of them spelled like the sentinel names, and a statement.
SentinelLines ==
  { <<"0","0","0","2","0","0"," ","H","E","A","D","E","R",".">>,
    <<"0","0","0","3","0","0"," ","D","E","F","A","U","L","T",".">>,
    <<"0","0","0","4","0","0"," ","P","1",".">>,
    <<"0","0","0","5","0","0"," "," "," "," "," ","P","E","R","F","O","R","M"," ","P","2",".">> }

SentinelTexts ==
  { JoinLines(<< <<"P","R","O","C","E","D","U","R","E"," ","D","I","V","I","S","I","O","N",".">> >> \o body) : body \in SeqsUpTo(SentinelLines, MaxLines) }

Inputs == RawTexts \cup ProcedureTexts \cup TwoParagraphTexts \cup FixedTexts \cup SentinelTexts

Filenames == { <<"A",".","c","b","l">>, <<"b",".","c","o","b">> }

\* ----------------------------------------------------------- state machine

VARIABLES
  filename,        \* parse_program's argument
  content,         \* parse_program's argument, the raw source text
  pc,              \* "call", "divisions", "done" or "raised"
  program,         \* the Program under construction, then returned
  division_parts,  \* the list the loop of line 118 iterates
  next_part        \* the index of the loop's next element

VARIABLES
  db,              \* the committed tables of the database
  conn,            \* the tables as the connection's open transaction sees them
  last,            \* the last call of vectorize_and_store: arguments and outcome
  state,           \* the position of the function that uses the connection
  stage,           \* the table the function is working on
  items,           \* the rows fetched for the stage, not yet handled
  handled,         \* what the current run has done, item by item
  run              \* the number of the current run of the function

VARIABLES
  argv,            \* the command line of the pipeline runner
  steps_to_run,    \* the steps chosen by main()
  step_index,      \* the index of the loop of line 133 in steps_to_run
  running,         \* the step whose function has been called and has not ended
  events,          \* the starts and ends of the step functions, in order
  exit_status      \* the status the process has exited with, if it has

VARIABLES
  cobol_dir,       \* the files under the directory load_data_source returned
  files_to_process,\* the list of line 46
  ingest_pc,       \* the position of run_ingest
  attempted        \* the files whose try block (line 62) was entered

parserVars == << filename, content, pc, program, division_parts, next_part >>
storeVars == << db, conn, last, state, stage, items, handled, run >>
runnerVars == << argv, steps_to_run, step_index, running, events, exit_status >>
ingestVars == << cobol_dir, files_to_process, ingest_pc, attempted >>

vars == << parserVars, storeVars, runnerVars, ingestVars >>

\* The parts of the state a function that is not running leaves at rest.
ParserIdle ==
  /\ filename = <<>>
  /\ content = <<>>
  /\ pc = "idle"
  /\ program = <<>>
  /\ division_parts = <<>>
  /\ next_part = 1

StoreIdle ==
  /\ db = <<>>
  /\ conn = <<>>
  /\ last = <<>>
  /\ state = "idle"
  /\ stage = 0
  /\ items = <<>>
  /\ handled = <<>>
  /\ run = 0

RunnerIdle ==
  /\ argv = <<>>
  /\ steps_to_run = <<>>
  /\ step_index = 0
  /\ running = "none"
  /\ events = <<>>
  /\ exit_status = "none"

IngestIdle ==
  /\ cobol_dir = {}
  /\ files_to_process = <<>>
  /\ ingest_pc = "idle"
  /\ attempted = <<>>

NoProgram == [filename |-> <<>>, program_name |-> <<>>, content |-> <<>>, divisions |-> <<>>]

Init ==
  /\ filename \in Filenames
  /\ content \in Inputs
  /\ pc = "call"
  /\ program = NoProgram
  /\ division_parts = <<>>
  /\ next_part = 1
  /\ StoreIdle
  /\ RunnerIdle
  /\ IngestIdle

\* Lines 106-116: the line endings, the program name, the Program, the split.
StartOn(text) ==
  /\ program' = [filename |-> filename,
                 program_name |-> ProgramName(text),
                 content |-> text,
                 divisions |-> <<>>]
  /\ division_parts' = split_by_regex(text, "RE_DIVISION")

ParseProgramStart ==
  /\ pc = "call"
  /\ StartOn(ReplaceCRLF(content))
  /\ next_part' = 1
  /\ pc' = "divisions"
  /\ UNCHANGED << filename, content >>
  /\ UNCHANGED << storeVars, runnerVars, ingestVars >>

\* A division appended with a call graph whatever its name.
AppendDivisionWithGraph(division) ==
  \E node_order \in IterationOrders(GraphNodes(division)) :
    program' =
      [program EXCEPT !.divisions =
         Append(@, [division EXCEPT
                      !.call_graph_mermaid = generate_mermaid_graph(division, node_order)])]

\* Lines 126 and 168-170: the division joins the program, with its call graph
\* when it is the PROCEDURE division.
AppendDivision(division) ==
  IF division.name = PROCEDURE
  THEN \E node_order \in IterationOrders(GraphNodes(division)) :
         program' =
           [program EXCEPT !.divisions =
              Append(@, [division EXCEPT !.call_graph_mermaid =
                           generate_mermaid_graph(division, node_order)])]
  ELSE program' = [program EXCEPT !.divisions = Append(@, division)]

\* Lines 119-170 for one element of division_parts.
HandlePart(div_part) ==
  IF div_part.name = HEADER
  THEN /\ pc' = pc
       /\ program' = program
  ELSE IF DivisionRaises(div_part)
  THEN /\ pc' = "raised"
       /\ program' = program
  ELSE /\ pc' = pc
       /\ AppendDivision(BuildDivision(div_part))

\* Lines 118-170: one iteration of the loop over division_parts.
ParseDivision ==
  /\ pc = "divisions"
  /\ next_part <= Len(division_parts)
  /\ HandlePart(division_parts[next_part])
  /\ next_part' = next_part + 1
  /\ UNCHANGED << filename, content, division_parts >>
  /\ UNCHANGED << storeVars, runnerVars, ingestVars >>

\* Line 172: return program.
ParseProgramReturn ==
  /\ pc = "divisions"
  /\ next_part > Len(division_parts)
  /\ pc' = "done"
  /\ UNCHANGED << filename, content, program, division_parts, next_part >>
  /\ UNCHANGED << storeVars, runnerVars, ingestVars >>

Next == ParseProgramStart \/ ParseDivision \/ ParseProgramReturn

Spec == Init /\ [][Next]_vars


\* ------------------------------------------------------------ vector store
\* src/src/database/vector_utils.py and the tables of
\* src/src/pipeline/db_setup.py. A table is the sequence of its rows in
\* insertion order; an identifier is a positive integer and NULL is none.

NULL == 0

\* fk_key_map (lines 44-49): the keyword arguments that become columns.
fk_key_map == { "program_id", "division_id", "section_id", "paragraph_id" }

\* The tables before anything is stored.
NoTables ==
  [cobol_programs |-> <<>>, cobol_divisions |-> <<>>, cobol_sections |-> <<>>,
   cobol_paragraphs |-> <<>>, cobol_vectors |-> <<>>]

\* Lines 51-57: the condition of the check query on one column.
CheckColumn(row, fk_ids, key) ==
  IF key \in DOMAIN fk_ids /\ fk_ids[key] # NULL
  THEN row[key] = fk_ids[key]
  ELSE row[key] = NULL

\* Lines 41-60: the check query finds a row.
VectorExists(cobol_vectors, vector_type, fk_ids) ==
  \E k \in 1..Len(cobol_vectors) :
    /\ cobol_vectors[k].vector_type = vector_type
    /\ \A key \in fk_key_map : CheckColumn(cobol_vectors[k], fk_ids, key)

\* Line 67: the text that is vectorized.
CombinedText(text_content, summary, vector_type) ==
  <<"C","o","n","t","e","n","t"," ","T","y","p","e",":"," ">> \o vector_type \o <<"\n","T","i","t","l","e",":"," ">> \o summary \o <<"\n","C","o","n","t","e","n","t",":"," ">> \o text_content

\* Lines 71-77: the inserted row; a column that is not named takes its
\* default, NULL.
VectorRow(text_content, summary, vector_type, fk_ids) ==
  [content |-> text_content,
   summary |-> summary,
   embedding |-> [embed_query |-> CombinedText(text_content, summary, vector_type)],
   vector_type |-> vector_type,
   program_id |-> IF "program_id" \in DOMAIN fk_ids THEN fk_ids["program_id"] ELSE NULL,
   division_id |-> IF "division_id" \in DOMAIN fk_ids THEN fk_ids["division_id"] ELSE NULL,
   section_id |-> IF "section_id" \in DOMAIN fk_ids THEN fk_ids["section_id"] ELSE NULL,
   paragraph_id |-> IF "paragraph_id" \in DOMAIN fk_ids THEN fk_ids["paragraph_id"] ELSE NULL]

\* A row accepted whatever its identifiers.
chk_nothing(row) == TRUE

\* db_setup.py lines 90-95: the constraint chk_vector_source of cobol_vectors.
chk_vector_source(row) ==
  \/ row.program_id # NULL
  \/ row.division_id # NULL
  \/ row.section_id # NULL
  \/ row.paragraph_id # NULL

\* vectorize_and_store (lines 34-85) on the table cobol_vectors as the cursor
\* sees it. embed_answers tells whether embed_query (line 69) returns or
\* raises. The result is the table after the call, what the call returned
\* ("True", "False" or "raised") and whether embed_query was called.
vectorize_and_store(cobol_vectors, text_content, summary, vector_type, fk_ids, embed_answers) ==
  IF VectorExists(cobol_vectors, vector_type, fk_ids)
  THEN [cobol_vectors |-> cobol_vectors, returned |-> "False", embedded |-> FALSE]
  ELSE IF ~embed_answers
  THEN [cobol_vectors |-> cobol_vectors, returned |-> "raised", embedded |-> TRUE]
  ELSE IF ~chk_vector_source(VectorRow(text_content, summary, vector_type, fk_ids))
  THEN [cobol_vectors |-> cobol_vectors, returned |-> "raised", embedded |-> TRUE]
  ELSE [cobol_vectors |-> Append(cobol_vectors, VectorRow(text_content, summary, vector_type, fk_ids)),
        returned |-> "True", embedded |-> TRUE]

\* -- calls of vectorize_and_store on one connection

MaxVectors == 2

\* The rows the identifiers of the calls refer to.
OneOfEach ==
  [NoTables EXCEPT
     !.cobol_programs = << [program_id |-> 1] >>,
     !.cobol_divisions = << [division_id |-> 1, program_id |-> 1] >>,
     !.cobol_sections = << [section_id |-> 1, division_id |-> 1] >>,
     !.cobol_paragraphs = << [paragraph_id |-> 1, section_id |-> 1] >>]

VectorTypes == { <<"c","o","d","e">>, <<"u","s","e","r","_","s","t","o","r","y">> }

\* The keys from the program down, as the callers pass them.
Hierarchy == << "program_id", "division_id", "section_id", "paragraph_id" >>

\* The keyword arguments of a call about a row at some depth of the hierarchy
\* (0: about no row): the identifiers down to that depth, the deeper keys
\* either omitted or passed as None.
IdsDownTo(depth) == [key \in { Hierarchy[k] : k \in 1..depth } |-> 1]

IdsAndNones(depth) == [key \in fk_key_map |-> IF key \in DOMAIN IdsDownTo(depth) THEN 1 ELSE NULL]

KeywordArguments == { IdsDownTo(depth) : depth \in 0..4 } \cup { IdsAndNones(depth) : depth \in 0..4 }

NoCall == [returned |-> "none"]

InitVector ==
  /\ db = OneOfEach
  /\ conn = OneOfEach
  /\ last = NoCall
  /\ state = "ready"
  /\ stage = 0
  /\ items = <<>>
  /\ handled = <<>>
  /\ run = 0
  /\ ParserIdle
  /\ RunnerIdle
  /\ IngestIdle

\* What a call leaves behind: its arguments, the table it found, its outcome.
CallRecord(vector_type, fk_ids, before, result) ==
  [vector_type |-> vector_type, fk_ids |-> fk_ids, before |-> before,
   returned |-> result.returned, embedded |-> result.embedded]

CallOutcome(vector_type, fk_ids, result) ==
  /\ conn' = [conn EXCEPT !.cobol_vectors = result.cobol_vectors]
  /\ last' = CallRecord(vector_type, fk_ids, conn.cobol_vectors, result)
  /\ state' = IF result.returned = "raised" THEN "raised" ELSE "ready"

\* One call of vectorize_and_store by a function that holds the cursor.
CallVectorizeAndStore ==
  /\ state = "ready"
  /\ \E vector_type \in VectorTypes, fk_ids \in KeywordArguments, embed_answers \in BOOLEAN :
       /\ Len(vectorize_and_store(conn.cobol_vectors, <<"T">>, <<"S">>, vector_type, fk_ids,
                                  embed_answers).cobol_vectors) <= MaxVectors
       /\ CallOutcome(vector_type, fk_ids,
                      vectorize_and_store(conn.cobol_vectors, <<"T">>, <<"S">>, vector_type, fk_ids,
                                          embed_answers))
  /\ UNCHANGED << db, stage, items, handled, run >>
  /\ UNCHANGED << parserVars, runnerVars, ingestVars >>

\* conn.commit() by the caller (process.py line 29, generate_stories.py line 86).
Commit ==
  /\ state = "ready"
  /\ conn # db
  /\ db' = conn
  /\ UNCHANGED << conn, last, state, stage, items, handled, run >>
  /\ UNCHANGED << parserVars, runnerVars, ingestVars >>

\* conn.rollback() by the caller's exception handler (process.py lines 69-71,
\* generate_stories.py lines 89-91).
Rollback ==
  /\ state = "raised"
  /\ conn' = db
  /\ state' = "ready"
  /\ last' = NoCall
  /\ UNCHANGED << db, stage, items, handled, run >>
  /\ UNCHANGED << parserVars, runnerVars, ingestVars >>

NextVector == CallVectorizeAndStore \/ Commit \/ Rollback

SpecVector == InitVector /\ [][NextVector]_vars

\* ---------------------------------------------------------- pipeline runner
\* src/src/cli/run_pipeline.py. The command line is the sequence of the
\* arguments after the program name; a step function is known by how it ends.

\* PIPELINE_STEPS (lines 18-39), by name.
PIPELINE_STEPS == << "setup", "ingest", "process", "stories" >>

step_names == { PIPELINE_STEPS[k] : k \in 1..Len(PIPELINE_STEPS) }

\* list.index (line 121).
IndexOf(name) == CHOOSE k \in 1..Len(PIPELINE_STEPS) : PIPELINE_STEPS[k] = name

Has(args, option) == \E k \in 1..Len(args) : args[k] = option

\* The value that follows an option, "none" without the option.
ValueOf(args, option) ==
  IF Has(args, option)
  THEN args[(CHOOSE k \in 1..Len(args) : args[k] = option) + 1]
  ELSE "none"

\* parser.parse_args() (lines 57-98): the namespace, or an error when two
\* options of the mutually exclusive group are given.
ParseArgs(args) ==
  [error |-> Cardinality({ option \in { "--all", "--start-from", "--only" } : Has(args, option) }) > 1,
   all |-> Has(args, "--all"),
   start_from |-> ValueOf(args, "--start-from"),
   only |-> ValueOf(args, "--only"),
   list_steps |-> Has(args, "--list-steps")]

\* Lines 107-122: the steps chosen by the namespace.
StepsOf(args) ==
  IF args.all THEN PIPELINE_STEPS
  ELSE IF args.only # "none"
  THEN SelectSeq(PIPELINE_STEPS, LAMBDA name : name = args.only)
  ELSE IF args.start_from # "none"
  THEN SubSeq(PIPELINE_STEPS, IndexOf(args.start_from), Len(PIPELINE_STEPS))
  ELSE <<>>

\* The command lines tried.
CommandLines ==
  { <<>>, << "--" >>, << "--list-steps" >>, << "--all" >>, << "--all", "--list-steps" >> }
    \cup { << "--only", name >> : name \in step_names }
    \cup { << "--start-from", name >> : name \in step_names }
    \cup { << "--all", "--only", name >> : name \in step_names }
    \cup { << "--start-from", name, "--list-steps" >> : name \in step_names }

InitRunner ==
  /\ argv \in CommandLines
  /\ steps_to_run = <<>>
  /\ step_index = 0
  /\ running = "none"
  /\ events = <<>>
  /\ exit_status = "none"
  /\ ParserIdle
  /\ StoreIdle
  /\ IngestIdle

\* sys.exit(status) of main() before any step.
ExitWith(status) ==
  /\ exit_status' = status
  /\ UNCHANGED << steps_to_run, step_index >>

\* Lines 125-131: the loop is entered with the chosen steps, if there are any.
Plan(chosen) ==
  IF chosen = <<>>
  THEN ExitWith("0")
  ELSE /\ steps_to_run' = chosen
       /\ step_index' = 1
       /\ exit_status' = exit_status

\* Lines 53-131: main() up to the loop over the steps.
Main ==
  /\ exit_status = "none"
  /\ step_index = 0
  /\ IF argv = <<>> THEN ExitWith("1")
     ELSE IF ParseArgs(argv).error THEN ExitWith("2")
     ELSE IF ParseArgs(argv).list_steps THEN ExitWith("0")
     ELSE Plan(StepsOf(ParseArgs(argv)))
  /\ UNCHANGED << argv, running, events >>
  /\ UNCHANGED << parserVars, storeVars, ingestVars >>

\* Lines 133-139: the next step's function is called.
StartStep ==
  /\ exit_status = "none"
  /\ running = "none"
  /\ step_index \in 1..Len(steps_to_run)
  /\ running' = steps_to_run[step_index]
  /\ events' = Append(events, << "start", steps_to_run[step_index] >>)
  /\ UNCHANGED << argv, steps_to_run, step_index, exit_status >>
  /\ UNCHANGED << parserVars, storeVars, ingestVars >>

\* Lines 139-142: the step's function returns and the loop goes on.
StepReturns ==
  /\ running # "none"
  /\ exit_status = "none"
  /\ running' = "none"
  /\ events' = Append(events, << "returned", running >>)
  /\ step_index' = step_index + 1
  /\ UNCHANGED << argv, steps_to_run, exit_status >>
  /\ UNCHANGED << parserVars, storeVars, ingestVars >>

\* The loop going on after a failed step.
StepFailureIgnored(kind) ==
  /\ running' = "none"
  /\ events' = Append(events, << kind, running >>)
  /\ step_index' = step_index + 1
  /\ exit_status' = exit_status

\* The step's function has ended with an exception: the process exits with
\* status 1.
StepFailure(kind) ==
  /\ running' = running
  /\ events' = Append(events, << kind, running >>)
  /\ step_index' = step_index
  /\ exit_status' = "1"

\* Lines 144-146: the step's function raises an Exception, which main()
\* catches.
StepRaises ==
  /\ running # "none"
  /\ exit_status = "none"
  /\ StepFailure("raised")
  /\ UNCHANGED << argv, steps_to_run >>
  /\ UNCHANGED << parserVars, storeVars, ingestVars >>

\* The step's function calls sys.exit(1) (ingest.py lines 27 and 44,
\* vector_utils.py line 32): SystemExit is not an Exception and leaves main().
StepExits ==
  /\ running \in { "ingest", "process", "stories" }
  /\ exit_status = "none"
  /\ StepFailure("exited")
  /\ UNCHANGED << argv, steps_to_run >>
  /\ UNCHANGED << parserVars, storeVars, ingestVars >>

\* Lines 148-149: the loop is exhausted and main() returns.
Finish ==
  /\ exit_status = "none"
  /\ running = "none"
  /\ step_index > Len(steps_to_run)
  /\ exit_status' = "0"
  /\ UNCHANGED << argv, steps_to_run, step_index, running, events >>
  /\ UNCHANGED << parserVars, storeVars, ingestVars >>

NextRunner == Main \/ StartStep \/ StepReturns \/ StepRaises \/ StepExits \/ Finish

\* The process is sequential and runs on; each step function is taken to end.
SpecRunner == InitRunner /\ [][NextRunner]_vars /\ WF_vars(NextRunner)

\* ------------------------------------------------------------------ ingest
\* src/src/pipeline/ingest.py, run_ingest.

\* COBOL_EXTENSIONS (line 17).
COBOL_EXTENSIONS == { <<".","c","b","l">>, <<".","c","o","b">>, <<".","C","B","L">>, <<".","C","O","B">> }

\* Path.suffix: the name from its last dot on, empty without a dot.
Suffix(name) ==
  IF \E k \in 1..Len(name) : name[k] = "."
  THEN SubSeq(name, CHOOSE k \in 1..Len(name) :
                      name[k] = "." /\ \A j \in (k + 1)..Len(name) : name[j] # ".",
              Len(name))
  ELSE <<>>

\* Lines 46-49: the files of the directory that have a COBOL extension.
CobolFiles(dir) == { name \in dir : Suffix(name) \in COBOL_EXTENSIONS }

\* The files that may lie under the directory.
SourceFiles == { <<"A",".","c","b","l">>, <<"b",".","c","o","b">>, <<"C",".","C","B","L">>, <<"d",".","C","o","b">>, <<"n","o","t","e","s",".","t","x","t">>, <<"M","a","k","e","f","i","l","e">> }

InitIngest ==
  /\ cobol_dir \in SUBSET SourceFiles
  /\ files_to_process = <<>>
  /\ ingest_pc = "start"
  /\ attempted = <<>>
  /\ ParserIdle
  /\ StoreIdle
  /\ RunnerIdle

\* Lines 39-44: load_data_source() returns the directory, or raises and
\* run_ingest exits with status 1.
LoadDataSource ==
  /\ ingest_pc = "start"
  /\ ingest_pc' \in { "list", "exited" }
  /\ UNCHANGED << cobol_dir, files_to_process, attempted >>
  /\ UNCHANGED << parserVars, storeVars, runnerVars >>

\* Lines 46-55: the list of the files, in the order rglob yields them;
\* run_ingest returns when there is none.
ListFiles ==
  /\ ingest_pc = "list"
  /\ files_to_process' \in IterationOrders(CobolFiles(cobol_dir))
  /\ ingest_pc' = IF CobolFiles(cobol_dir) = {} THEN "returned" ELSE "connect"
  /\ UNCHANGED << cobol_dir, attempted >>
  /\ UNCHANGED << parserVars, storeVars, runnerVars >>

\* Line 56: get_db_connection() returns a connection or exits with status 1
\* (lines 20-27).
Connect ==
  /\ ingest_pc = "connect"
  /\ ingest_pc' \in { "loop", "exited" }
  /\ UNCHANGED << cobol_dir, files_to_process, attempted >>
  /\ UNCHANGED << parserVars, storeVars, runnerVars >>

\* Lines 58-59, first iteration: the name COBOL_DIR is defined nowhere in the
\* module, so evaluating line 59 raises NameError before the try block of
\* line 62; nothing catches it and run_ingest ends with it.
FirstFile ==
  /\ attempted' = attempted
  /\ ingest_pc' = "raised"

ProcessFiles ==
  /\ ingest_pc = "loop"
  /\ attempted = <<>>
  /\ FirstFile
  /\ UNCHANGED << cobol_dir, files_to_process >>
  /\ UNCHANGED << parserVars, storeVars, runnerVars >>

NextIngest == LoadDataSource \/ ListFiles \/ Connect \/ ProcessFiles

SpecIngest == InitIngest /\ [][NextIngest]_vars

\* ----------------------------------------------------- tables of a program
\* The rows run_ingest writes for parsed programs (ingest.py lines 76-115,
\* db_setup.py lines 26-74). A text column that is NULL holds None.

\* Numbers of divisions, sections and paragraphs of the stored programs.
Shapes ==
  { << 0, 0, 0 >>, << 1, 1, 0 >>, << 1, 1, 1 >>, << 1, 2, 2 >>, << 2, 2, 1 >>, << 2, 3, 2 >> }

\* The parent of the k-th row of a table whose parent table has n rows.
ParentOf(k, n) == ((k - 1) % n) + 1

\* The code of the k-th row of a table: blank for every second row.
CodeOf(k) == IF k % 2 = 1 THEN <<"M","O","V","E"," ","A"," ","T","O"," ","B",".">> ELSE <<" "," ">>

DivisionNames == << PROCEDURE, <<"D","A","T","A">> >>

\* The tables after run_ingest stored one program of a shape: every summary
\* is NULL (ingest.py lines 93, 103, 114) and there is no vector.
Ingested(shape) ==
  [NoTables EXCEPT
     !.cobol_programs = << [program_id |-> 1] >>,
     !.cobol_divisions =
        [k \in 1..shape[1] |->
           [division_id |-> k, program_id |-> 1, name |-> DivisionNames[k],
            code |-> CodeOf(k), summary |-> None,
            call_graph_mermaid |-> IF DivisionNames[k] = PROCEDURE THEN <<"g","r","a","p","h"," ","T","D",";">> ELSE None]],
     !.cobol_sections =
        [k \in 1..shape[2] |->
           [section_id |-> k, division_id |-> ParentOf(k, shape[1]),
            code |-> CodeOf(k + 1), summary |-> None]],
     !.cobol_paragraphs =
        [k \in 1..shape[3] |->
           [paragraph_id |-> k, section_id |-> ParentOf(k, shape[2]),
            code |-> CodeOf(k), summary |-> None]]]

\* The row of a table with an identifier.
RowOf(table, id_column, id) ==
  table[CHOOSE k \in 1..Len(table) : table[k][id_column] = id]

\* UPDATE table SET summary = ... WHERE id_column = id.
SetSummary(table, id_column, id, summary) ==
  [k \in 1..Len(table) |->
     IF table[k][id_column] = id THEN [table[k] EXCEPT !.summary = summary] ELSE table[k]]

\* ----------------------------------------------------------------- process
\* src/src/pipeline/process.py, process_unsummarized_data, and
\* src/src/analysis/summarizer.py, get_summary.

\* get_summary (summarizer.py lines 32-44): the fixed text for blank code,
\* else the model's answer, or the error text when the chain raises.
get_summary(code_snippet, llm_answers) ==
  IF Strip(code_snippet) = <<>>
  THEN <<"N","/","A"," ","-"," ","N","o"," ","c","o","d","e"," ","p","r","o","v","i","d","e","d",".">>
  ELSE IF llm_answers
  THEN <<"M","o","v","e","s"," ","A"," ","t","o"," ","B",".">>
  ELSE <<"E","r","r","o","r",":"," ","C","o","u","l","d"," ","n","o","t"," ","g","e","n","e","r","a","t","e"," ","s","u","m","m","a","r","y","."," ","t","i","m","e","o","u","t">>

\* The tables of the three stages, in order (lines 18, 31, 48).
StageTables == << "cobol_divisions", "cobol_sections", "cobol_paragraphs" >>

IdColumn(table_name) ==
  CASE table_name = "cobol_divisions" -> "division_id"
    [] table_name = "cobol_sections" -> "section_id"
    [] table_name = "cobol_paragraphs" -> "paragraph_id"

\* The identifiers an item of a table carries to vectorize_and_store
\* (lines 27-28, 44-45, 63-65), found through the joins of the queries
\* (lines 20, 33-37, 50-56).
ProcessKeys(tables, table_name, row) ==
  CASE table_name = "cobol_divisions" ->
         [program_id |-> row.program_id, division_id |-> row.division_id]
    [] table_name = "cobol_sections" ->
         [program_id |-> RowOf(tables.cobol_divisions, "division_id", row.division_id).program_id,
          division_id |-> row.division_id,
          section_id |-> row.section_id]
    [] table_name = "cobol_paragraphs" ->
         [program_id |->
            RowOf(tables.cobol_divisions, "division_id",
                  RowOf(tables.cobol_sections, "section_id", row.section_id).division_id).program_id,
          division_id |-> RowOf(tables.cobol_sections, "section_id", row.section_id).division_id,
          section_id |-> row.section_id,
          paragraph_id |-> row.paragraph_id]

\* The rows of a table whatever their summary.
AllRows(tables, table_name) == tables[table_name]

\* The queries of lines 20, 33-37 and 50-56: the rows whose summary IS NULL.
Unsummarized(tables, table_name) ==
  SelectSeq(tables[table_name], LAMBDA row : row.summary = None)

MaxRuns == 2

InitProcess ==
  /\ db \in { Ingested(shape) : shape \in Shapes }
  /\ conn = db
  /\ last = NoCall
  /\ state = "select"
  /\ stage = 1
  /\ items = <<>>
  /\ handled = <<>>
  /\ run = 1
  /\ ParserIdle
  /\ RunnerIdle
  /\ IngestIdle

\* Lines 19-22, 32-39, 49-58: the stage's query and fetchall.
SelectUnsummarized ==
  /\ state = "select"
  /\ items' = Unsummarized(conn, StageTables[stage])
  /\ state' = "loop"
  /\ UNCHANGED << db, conn, last, stage, handled, run >>
  /\ UNCHANGED << parserVars, runnerVars, ingestVars >>

\* What is noted of an item handled in a run.
Summarized(table_name, row) ==
  [run |-> run, table |-> table_name, id |-> row[IdColumn(table_name)], was |-> row.summary]

\* Lines 25-28 (42-45, 61-65) with the summary made: the UPDATE, then
\* vectorize_and_store, whose exception leaves the loop.
StoreSummary(table_name, row, summary, result) ==
  /\ conn' = [conn EXCEPT
                ![table_name] = SetSummary(@, IdColumn(table_name), row[IdColumn(table_name)], summary),
                !.cobol_vectors = result.cobol_vectors]
  /\ last' = CallRecord(<<"c","o","d","e">>, ProcessKeys(conn, table_name, row), conn.cobol_vectors, result)
  /\ state' = IF result.returned = "raised" THEN "raised" ELSE "loop"

\* Lines 23-28, 40-45, 59-65: one iteration of the stage's loop.
ProcessItem ==
  /\ state = "loop"
  /\ items # <<>>
  /\ \E llm_answers \in BOOLEAN, embed_answers \in BOOLEAN :
       StoreSummary(StageTables[stage], Head(items),
                    get_summary(Head(items).code, llm_answers),
                    vectorize_and_store(conn.cobol_vectors, Head(items).code,
                                        get_summary(Head(items).code, llm_answers), <<"c","o","d","e">>,
                                        ProcessKeys(conn, StageTables[stage], Head(items)),
                                        embed_answers))
  /\ items' = Tail(items)
  /\ handled' = Append(handled, Summarized(StageTables[stage], Head(items)))
  /\ UNCHANGED << db, stage, run >>
  /\ UNCHANGED << parserVars, runnerVars, ingestVars >>

\* Lines 29, 46, 66-67: the stage's commit; after the third the function
\* returns.
CommitStage ==
  /\ state = "loop"
  /\ items = <<>>
  /\ db' = conn
  /\ stage' = IF stage < Len(StageTables) THEN stage + 1 ELSE stage
  /\ state' = IF stage < Len(StageTables) THEN "select" ELSE "complete"
  /\ UNCHANGED << conn, last, items, handled, run >>
  /\ UNCHANGED << parserVars, runnerVars, ingestVars >>

\* Lines 69-71: the exception handler rolls back and the function returns.
ProcessFails ==
  /\ state = "raised"
  /\ conn' = db
  /\ state' = "failed"
  /\ UNCHANGED << db, last, stage, items, handled, run >>
  /\ UNCHANGED << parserVars, runnerVars, ingestVars >>

\* process_unsummarized_data is called again on the same database.
ProcessAgain ==
  /\ state \in { "complete", "failed" }
  /\ run < MaxRuns
  /\ run' = run + 1
  /\ handled' = Append(handled, [run |-> run, table |-> state, id |-> NULL, was |-> None])
  /\ stage' = 1
  /\ items' = <<>>
  /\ state' = "select"
  /\ UNCHANGED << db, conn, last >>
  /\ UNCHANGED << parserVars, runnerVars, ingestVars >>

NextProcess == SelectUnsummarized \/ ProcessItem \/ CommitStage \/ ProcessFails \/ ProcessAgain

SpecProcess == InitProcess /\ [][NextProcess]_vars

\* ----------------------------------------------------------------- stories
\* src/src/pipeline/generate_stories.py, run_generate_stories, on tables that
\* run_process has worked on.

\* A table after its stage of process_unsummarized_data: every row has the
\* summary get_summary gave, the model answering or not for the whole table.
SummarizedTable(table, llm_answers) ==
  [k \in 1..Len(table) |-> [table[k] EXCEPT !.summary = get_summary(table[k].code, llm_answers)]]

\* The 'code' entries of the rows of a table (process.py lines 27, 44, 63).
CodeVectors(tables, table_name) ==
  [k \in 1..Len(tables[table_name]) |->
     VectorRow(tables[table_name][k].code, tables[table_name][k].summary, <<"c","o","d","e">>,
               ProcessKeys(tables, table_name, tables[table_name][k]))]

\* The 'graph' entry of a division (process.py lines 154-158).
GraphVector(row) ==
  VectorRow(row.call_graph_mermaid, get_summary(row.call_graph_mermaid, TRUE), <<"g","r","a","p","h">>,
            [program_id |-> row.program_id, division_id |-> row.division_id])

\* The 'graph' entries process_and_vectorize_graphs stores (process.py lines
\* 144-158): one per PROCEDURE division with a call graph.
GraphVectors(tables) ==
  [k \in 1..Len(SelectSeq(tables.cobol_divisions,
                          LAMBDA row : row.name = PROCEDURE /\ row.call_graph_mermaid # None)) |->
     GraphVector(SelectSeq(tables.cobol_divisions,
                           LAMBDA row : row.name = PROCEDURE /\ row.call_graph_mermaid # None)[k])]

\* The tables with the stages of a set done.
WithStages(tables, done, failing) ==
  [tables EXCEPT
     !.cobol_divisions =
        IF "cobol_divisions" \in done
        THEN SummarizedTable(@, "cobol_divisions" \notin failing) ELSE @,
     !.cobol_sections =
        IF "cobol_sections" \in done
        THEN SummarizedTable(@, "cobol_sections" \notin failing) ELSE @,
     !.cobol_paragraphs =
        IF "cobol_paragraphs" \in done
        THEN SummarizedTable(@, "cobol_paragraphs" \notin failing) ELSE @]

\* The tables with the vectors of the stages done, and the graph vectors.
WithVectors(tables, done, graphs) ==
  [tables EXCEPT
     !.cobol_vectors =
        (IF "cobol_divisions" \in done THEN CodeVectors(tables, "cobol_divisions") ELSE <<>>)
        \o (IF "cobol_sections" \in done THEN CodeVectors(tables, "cobol_sections") ELSE <<>>)
        \o (IF "cobol_paragraphs" \in done THEN CodeVectors(tables, "cobol_paragraphs") ELSE <<>>)
        \o (IF graphs THEN GraphVectors(tables) ELSE <<>>)]

Processed(shape, done, failing, graphs) ==
  WithVectors(WithStages(Ingested(shape), done, failing), done, graphs)

\* The stages process_unsummarized_data may have committed, and the tables
\* on which the model did not answer.
StagesDone ==
  { {}, { "cobol_divisions" }, { "cobol_divisions", "cobol_sections" },
    { "cobol_divisions", "cobol_sections", "cobol_paragraphs" } }

StagesFailing == { {}, { "cobol_divisions" }, { "cobol_sections", "cobol_paragraphs" } }

ProcessedTables ==
  { Processed(shape, done, failing, graphs) :
      shape \in Shapes, done \in StagesDone, failing \in StagesFailing, graphs \in BOOLEAN }

\* The calls of run_generate_stories in order (lines 150-159).
StoryStages == << "cobol_divisions", "cobol_sections", "cobol_paragraphs", "graphs" >>

\* WHERE summary IS NOT NULL AND summary NOT LIKE 'Error:%' (lines 32, 38, 46).
HasUsableSummary(row) ==
  /\ row.summary # None
  /\ ~StartsWith(row.summary, <<"E","r","r","o","r",":">>)

\* The items of a stage as the query returns them (lines 27-47, 100-104):
\* item_id, summary, prog_id, div_id, sec_id.
StoryItem(tables, table_name, row) ==
  CASE table_name = "cobol_divisions" ->
         [item_id |-> row.division_id, summary |-> row.summary,
          prog_id |-> row.program_id, div_id |-> row.division_id, sec_id |-> NULL]
    [] table_name = "cobol_sections" ->
         [item_id |-> row.section_id, summary |-> row.summary,
          prog_id |-> ProcessKeys(tables, table_name, row).program_id,
          div_id |-> row.division_id, sec_id |-> NULL]
    [] table_name = "cobol_paragraphs" ->
         [item_id |-> row.paragraph_id, summary |-> row.summary,
          prog_id |-> ProcessKeys(tables, table_name, row).program_id,
          div_id |-> ProcessKeys(tables, table_name, row).division_id,
          sec_id |-> row.section_id]

GraphItem(row) ==
  [item_id |-> row.division_id, summary |-> row.summary,
   prog_id |-> row.program_id, div_id |-> row.division_id, sec_id |-> NULL]

StoryItems(tables, stage_name) ==
  IF stage_name = "graphs"
  THEN [k \in 1..Len(SelectSeq(tables.cobol_vectors, LAMBDA row : row.vector_type = <<"g","r","a","p","h">>)) |->
          GraphItem(SelectSeq(tables.cobol_vectors, LAMBDA row : row.vector_type = <<"g","r","a","p","h">>)[k])]
  ELSE [k \in 1..Len(SelectSeq(tables[stage_name], HasUsableSummary)) |->
          StoryItem(tables, stage_name, SelectSeq(tables[stage_name], HasUsableSummary)[k])]

\* Lines 68-73 and 127-128: the keyword arguments of the call.
StoryKeys(stage_name, item) ==
  IF stage_name = "graphs"
  THEN [program_id |-> item.prog_id, division_id |-> item.div_id]
  ELSE [program_id |-> item.prog_id, division_id |-> item.div_id, section_id |-> item.sec_id,
        paragraph_id |-> IF stage_name = "cobol_paragraphs" THEN item.item_id ELSE NULL]

InitStories ==
  /\ db \in ProcessedTables
  /\ conn = db
  /\ last = NoCall
  /\ state = "select"
  /\ stage = 1
  /\ items = <<>>
  /\ handled = <<>>
  /\ run = 1
  /\ ParserIdle
  /\ RunnerIdle
  /\ IngestIdle

\* Lines 51-54, 98-106: the stage's query and fetchall.
SelectSummarized ==
  /\ state = "select"
  /\ items' = StoryItems(conn, StoryStages[stage])
  /\ state' = "loop"
  /\ UNCHANGED << db, conn, last, stage, handled, run >>
  /\ UNCHANGED << parserVars, runnerVars, ingestVars >>

StoryNoted(item, outcome) ==
  handled' = Append(handled, [table |-> StoryStages[stage], id |-> item.item_id, outcome |-> outcome])

\* Lines 60-65, 112-119: the chain raises or its answer is not a story, and
\* the loop continues.
StoryFails ==
  /\ state = "loop"
  /\ items # <<>>
  /\ StoryNoted(Head(items), "no story")
  /\ items' = Tail(items)
  /\ UNCHANGED << db, conn, last, state, stage, run >>
  /\ UNCHANGED << parserVars, runnerVars, ingestVars >>

\* Lines 76-84, 122-131 with the result of vectorize_and_store.
StoryStored(item, fk_ids, result) ==
  /\ conn' = [conn EXCEPT !.cobol_vectors = result.cobol_vectors]
  /\ last' = CallRecord(<<"u","s","e","r","_","s","t","o","r","y">>, fk_ids, conn.cobol_vectors, result)
  /\ state' = IF result.returned = "raised" THEN "raised" ELSE "loop"
  /\ StoryNoted(item, CASE result.returned = "True" -> "created"
                        [] result.returned = "False" -> "skipped"
                        [] result.returned = "raised" -> "raised")

\* Lines 56-84, 108-131: one iteration with a story generated.
StoreStory ==
  /\ state = "loop"
  /\ items # <<>>
  /\ \E embed_answers \in BOOLEAN :
       StoryStored(Head(items), StoryKeys(StoryStages[stage], Head(items)),
                   vectorize_and_store(conn.cobol_vectors, <<"A","s"," ","a"," ","c","l","e","r","k",","," ","I"," ","w","a","n","t"," ","X",","," ","s","o"," ","t","h","a","t"," ","Y",".">>,
                                       <<"T","i","t","l","e">>, <<"u","s","e","r","_","s","t","o","r","y">>,
                                       StoryKeys(StoryStages[stage], Head(items)), embed_answers))
  /\ items' = Tail(items)
  /\ UNCHANGED << db, stage, run >>
  /\ UNCHANGED << parserVars, runnerVars, ingestVars >>

\* The next call of run_generate_stories, or its end (lines 150-164).
NextStage ==
  /\ stage' = IF stage < Len(StoryStages) THEN stage + 1 ELSE stage
  /\ state' = IF stage < Len(StoryStages) THEN "select" ELSE "complete"

\* Lines 86-87, 133-134: the commit that ends the stage's function.
CommitStories ==
  /\ state = "loop"
  /\ items = <<>>
  /\ db' = conn
  /\ NextStage
  /\ UNCHANGED << conn, last, items, handled, run >>
  /\ UNCHANGED << parserVars, runnerVars, ingestVars >>

\* Lines 89-91, 136-138: the stage's function rolls back and returns.
StoriesRollback ==
  /\ state = "raised"
  /\ conn' = db
  /\ items' = <<>>
  /\ NextStage
  /\ UNCHANGED << db, last, handled, run >>
  /\ UNCHANGED << parserVars, runnerVars, ingestVars >>

NextStories == SelectSummarized \/ StoryFails \/ StoreStory \/ CommitStories \/ StoriesRollback

SpecStories == InitStories /\ [][NextStories]_vars
\* ------------------------------------------------------------------ claims

Done == pc = "done"

Range(seq) == { seq[k] : k \in 1..Len(seq) }

\* The PROCEDURE divisions of the program.
ProcedureDivisions == { d \in Range(program.divisions) : d.name = PROCEDURE }

\* The paragraphs of a division, and the names they define.
ParagraphsIn(d) == UNION { Range(sec.paragraphs) : sec \in Range(d.sections) }

DefinedNames(d) == { para.name : para \in ParagraphsIn(d) }

\* The lines of a division's rendered call graph.
RenderedLines(d) == SplitLines(d.call_graph_mermaid)

\* Has the text a boundary of the pattern?
HasBoundary(regex, text) == \E p \in Range(LineStarts(text)) : MatchAt(regex, text, p) # NoMatch

\* -- C1

IDENTIFICATION == <<"I","D","E","N","T","I","F","I","C","A","T","I","O","N">>

SequenceNumbered(line) == Len(line) >= 7 /\ \A k \in 1..6 : line[k] \in Digits

\* Columns 7 on: the indicator column and the text area.
TextArea(line) == SubSeq(line, 7, Len(line))

\* A fixed-format program of two numbered lines, the header and the declaration.
IsNumberedIdentification(text) ==
  LET lines == SplitLines(text)
  IN  /\ Len(lines) = 3 /\ lines[3] = <<>>
      /\ SequenceNumbered(lines[1]) /\ SequenceNumbered(lines[2])
      /\ TextArea(lines[1]) = <<" ","I","D","E","N","T","I","F","I","C","A","T","I","O","N"," ","D","I","V","I","S","I","O","N",".">>
      /\ RE_PROGRAM_ID(TextArea(lines[2]), 1) # NoMatch

DeclaredIn(line) == Upper(RE_PROGRAM_ID(TextArea(line), 1).name)

\* C1: a fixed-format program whose numbered lines hold IDENTIFICATION
\* DIVISION. and PROGRAM-ID. <name>. parses to program_name <name>, uppercased,
\* and to exactly one Division, named IDENTIFICATION.
C1_NumberedIdentification ==
  (Done /\ IsNumberedIdentification(program.content)) =>
     /\ program.program_name = DeclaredIn(SplitLines(program.content)[2])
     /\ Len(program.divisions) = 1
     /\ program.divisions[1].name = IDENTIFICATION

\* -- C2

\* The result the claim gives for the two-paragraph program.
IsTwoParagraphResult(p1, p2) ==
  /\ Len(program.divisions) = 1
  /\ program.divisions[1].name = PROCEDURE
  /\ LET d == program.divisions[1]
         paras == ConcatAll([k \in 1..Len(d.sections) |-> d.sections[k].paragraphs])
         lines == RenderedLines(d)
     IN  /\ Len(paras) = 2
         /\ paras[1].name = p1 /\ paras[1].calls = << p2 >>
         /\ paras[2].name = p2 /\ paras[2].calls = <<>>
         /\ Len(lines) = 4
         /\ lines[1] = <<"g","r","a","p","h"," ","T","D",";">>
         /\ lines[2] = EdgeLine(p1, p2)
         /\ { lines[3], lines[4] } = { NodeLine(p1), NodeLine(p2) }

\* C2: a PROCEDURE DIVISION whose body is a paragraph header P1 in column 1,
\* an indented PERFORM P2, a paragraph header P2 in column 1 and an indented
\* statement yields the paragraphs P1 and P2, the call list [P2] for P1, none
\* for P2, and the graph of nodes {P1, P2} and the one edge (P1, P2).
C2_TwoParagraphs ==
  Done =>
    \A names \in ParagraphNames, indent \in 1..MaxIndent :
      content = TwoParagraphs(names[1], names[2], indent)
        => IsTwoParagraphResult(names[1], names[2])

\* -- C3

\* The calls of a division, each with its caller, and those among them whose
\* target matches no defined paragraph name.
CallsIn(d) ==
  UNION { { << para.name, target >> : target \in Range(para.calls) } : para \in ParagraphsIn(d) }

DanglingCalls(d) == { call \in CallsIn(d) : call[2] \notin DefinedNames(d) }

LeavesFrom(line, node) == StartsWith(line, <<" "," "," "," ">> \o node \o <<" ","-","-",">"," ">>)

\* C3: every extracted call whose target is no defined paragraph is a node of
\* the graph, with an edge from its caller and no edge leaving it, and the
\* parse raises no error.
C3_DanglingKept ==
  /\ pc # "raised"
  /\ Done =>
       \A d \in ProcedureDivisions : \A call \in DanglingCalls(d) :
          /\ NodeLine(call[2]) \in Range(RenderedLines(d))
          /\ EdgeLine(call[1], call[2]) \in Range(RenderedLines(d))
          /\ \A line \in Range(RenderedLines(d)) : ~LeavesFrom(line, call[2])

C3_Witness ==
  /\ Done
  /\ \E d \in ProcedureDivisions : \E call \in DanglingCalls(d) :
       NodeLine(call[2]) \in Range(RenderedLines(d))

\* -- C4

IsCommentLine(line) == Len(line) >= 7 /\ line[7] = "*"

\* The text without its comment lines.
WithoutComments(text) ==
  JoinLines(SelectSeq(SplitLines(text), LAMBDA line : ~IsCommentLine(line)))

\* The divisions parse_program builds from a text, their graphs left out.
DivisionsOf(text) ==
  LET parts == SelectSeq(split_by_regex(text, "RE_DIVISION"), LAMBDA part : part.name # HEADER)
  IN  [k \in 1..Len(parts) |-> BuildDivision(parts[k])]

WithoutGraphs(divisions) ==
  [k \in 1..Len(divisions) |-> [divisions[k] EXCEPT !.call_graph_mermaid = None]]

\* C4: a line whose 7th column is the comment marker is in no Division,
\* Section or Paragraph text and makes no boundary, wherever it stands: the
\* divisions are those of the text without its comment lines.
C4_CommentsAbsent ==
  Done => WithoutGraphs(program.divisions) = DivisionsOf(WithoutComments(program.content))

\* -- C5

\* C5: the nodes of a PROCEDURE Division's call graph include every Paragraph
\* name of every Section and every name in any Paragraph's call list.
C5_NodesCoverNamesAndCalls ==
  Done =>
    \A d \in ProcedureDivisions : \A sec \in Range(d.sections) : \A para \in Range(sec.paragraphs) :
       /\ NodeLine(para.name) \in Range(RenderedLines(d))
       /\ \A target \in Range(para.calls) : NodeLine(target) \in Range(RenderedLines(d))

C5_Witness ==
  /\ Done
  /\ \E d \in ProcedureDivisions :
       /\ Len(d.sections) >= 2
       /\ \A sec \in Range(d.sections) : sec.paragraphs # <<>>
       /\ \E para \in ParagraphsIn(d) : \E target \in Range(para.calls) :
            target \notin DefinedNames(d)

\* -- C6

\* The edge lines the call lists ask for: section, paragraph and call order.
ExpectedEdgeLines(d) ==
  ConcatAll([i \in 1..Len(d.sections) |->
    ConcatAll([j \in 1..Len(d.sections[i].paragraphs) |->
      [k \in 1..Len(d.sections[i].paragraphs[j].calls) |->
         EdgeLine(d.sections[i].paragraphs[j].name, d.sections[i].paragraphs[j].calls[k])]])])

NodeNames(d) ==
  DefinedNames(d) \cup UNION { Range(para.calls) : para \in ParagraphsIn(d) }

GraphAsCallLists(lines, edges, nodes) ==
  /\ Len(lines) = 1 + Len(edges) + Cardinality(nodes)
  /\ lines[1] = <<"g","r","a","p","h"," ","T","D",";">>
  /\ SubSeq(lines, 2, 1 + Len(edges)) = edges
  /\ \A node \in nodes :
       Cardinality({ k \in (2 + Len(edges))..Len(lines) : lines[k] = NodeLine(node) }) = 1

\* C6: the rendered graph has one edge per entry of every call list, in
\* section, paragraph and call order, duplicates kept, and lists every node
\* name exactly once.
C6_EdgesPerCall ==
  Done =>
    \A d \in ProcedureDivisions :
      GraphAsCallLists(RenderedLines(d), ExpectedEdgeLines(d), NodeNames(d))

C6_Witness ==
  /\ Done
  /\ \E d \in ProcedureDivisions : \E para \in ParagraphsIn(d) :
       /\ \E i, j \in 1..Len(para.calls) : i < j /\ para.calls[i] = para.calls[j]
       /\ \E i, j \in 1..Len(RenderedLines(d)) :
            /\ i < j
            /\ RenderedLines(d)[i] = RenderedLines(d)[j]
            /\ RenderedLines(d)[i] = EdgeLine(para.name, para.calls[1])

\* -- C7

TokenStart(code, q) == RunEnd(code, q + Len(KW_PERFORM), BlankChars)

TokenEnd(code, q) == RunEnd(code, TokenStart(code, q), NameChars)

TokenAfter(code, q) == Upper(Slice(code, TokenStart(code, q), TokenEnd(code, q)))

\* PERFORM at position q of the code, blanks, then the start of an identifier.
IsOccurrence(code, q) ==
  /\ HasLit(code, q, KW_PERFORM)
  /\ TokenStart(code, q) > q + Len(KW_PERFORM)
  /\ TokenStart(code, q) <= Len(code)
  /\ code[TokenStart(code, q)] \in AlnumChars

Occurrences(code) == { q \in 1..Len(code) : IsOccurrence(code, q) }

\* The positions of a set, in increasing order.
RECURSIVE Ascending(_)
Ascending(S) ==
  IF S = {} THEN <<>> ELSE << Least(S) >> \o Ascending(S \ { Least(S) })

\* The occurrences that lie in no identifier taken for an earlier one: the
\* first at or after `from`, then those after its identifier.
RECURSIVE CountedFrom(_, _)
CountedFrom(code, from) ==
  IF { q \in Occurrences(code) : q >= from } = {} THEN <<>>
  ELSE << Least({ q \in Occurrences(code) : q >= from }) >>
       \o CountedFrom(code, TokenEnd(code, Least({ q \in Occurrences(code) : q >= from })))

TokensAt(code, positions) ==
  [k \in 1..Len(positions) |-> TokenAfter(code, positions[k])]

AllParagraphs == UNION { ParagraphsIn(d) : d \in Range(program.divisions) }

\* C7 as claimed: every call list is the identifiers after the occurrences of
\* PERFORM in the paragraph's text, uppercased, in order, one per occurrence.
C7_OnePerOccurrence ==
  Done =>
    \A para \in AllParagraphs :
      para.calls = TokensAt(para.code, Ascending(Occurrences(para.code)))

\* C7 as amended: one entry per occurrence of PERFORM that does not lie in
\* the identifier taken for an earlier entry; the rest as claimed.
C7_OnePerScannedOccurrence ==
  Done =>
    \A para \in AllParagraphs :
      para.calls = TokensAt(para.code, CountedFrom(para.code, 1))

C7_Witness ==
  /\ Done
  /\ \E para \in AllParagraphs :
       /\ Len(para.calls) >= 1
       /\ Cardinality(Occurrences(para.code)) > Len(para.calls)

\* -- C8

\* What a level without boundaries degrades to.
SentinelsOnly ==
  /\ program.divisions # <<>>
  /\ ~HasBoundary("RE_DIVISION", program.content)
       => Len(program.divisions) = 1 /\ program.divisions[1].name = DEFAULT
  /\ \A d \in Range(program.divisions) :
       /\ d.sections # <<>>
       /\ ~HasBoundary("RE_SECTION", d.code)
            => Len(d.sections) = 1 /\ d.sections[1].name = DEFAULT
       /\ d.name = PROCEDURE =>
            \A sec \in Range(d.sections) :
              ~HasBoundary("RE_PARAGRAPH", sec.code) =>
                 \A para \in Range(sec.paragraphs) :
                   para.name \in { DEFAULT, sec.name \o <<"-","H","E","A","D","E","R">> }

\* C8: parse_program never raises; the Program it returns is for the filename
\* given, and a level without boundaries shows as sentinel segments only.
C8_NeverRaises ==
  /\ pc # "raised"
  /\ Done => program.filename = filename /\ SentinelsOnly

C8_Witness ==
  /\ Done
  /\ content = <<>>
  /\ Len(program.divisions) = 1
  /\ program.divisions[1].name = DEFAULT

\* -- C9

\* The identifier a line declares, in free format or in its text area.
Declares(line) ==
  RE_PROGRAM_ID(line, 1) # NoMatch \/ RE_PROGRAM_ID(TextArea(line), 1) # NoMatch

DeclaredName(line) ==
  IF RE_PROGRAM_ID(line, 1) # NoMatch THEN Upper(RE_PROGRAM_ID(line, 1).name)
  ELSE Upper(RE_PROGRAM_ID(TextArea(line), 1).name)

FirstDeclaration(lines) ==
  lines[Least({ k \in 1..Len(lines) : Declares(lines[k]) })]

\* C9: program_name is the uppercased identifier of the first PROGRAM-ID
\* declaration of the source, and UNKNOWN exactly when there is none.
C9_FirstDeclaration ==
  Done =>
    LET lines == SplitLines(program.content)
    IN  IF \E k \in 1..Len(lines) : Declares(lines[k])
        THEN /\ program.program_name = DeclaredName(FirstDeclaration(lines))
             /\ program.program_name # UNKNOWN
        ELSE program.program_name = UNKNOWN

\* -- C10

NoDivisionBoundary == Done /\ ~HasBoundary("RE_DIVISION", program.content)

\* C10 as claimed: without a division boundary there is one Division, named
\* DEFAULT, holding the whole text, with no Sections and no Paragraphs.
C10_DefaultWithoutSections ==
  NoDivisionBoundary =>
     /\ Len(program.divisions) = 1
     /\ program.divisions[1].name = DEFAULT
     /\ program.divisions[1].code = program.content
     /\ program.divisions[1].sections = <<>>

\* C10 as amended: the one DEFAULT Division holds the whole text as the line
\* normalizer leaves it, Sections are still derived from it (at least one),
\* and no Paragraphs and no call graph.
C10_DefaultWithSections ==
  NoDivisionBoundary =>
     /\ Len(program.divisions) = 1
     /\ program.divisions[1].name = DEFAULT
     /\ program.divisions[1].code = clean_code(SplitLines(program.content))
     /\ Len(program.divisions[1].sections) >= 1
     /\ \A sec \in Range(program.divisions[1].sections) : sec.paragraphs = <<>>
     /\ program.divisions[1].call_graph_mermaid = None

C10_Witness ==
  /\ NoDivisionBoundary
  /\ program.content # <<>>
  /\ \E sec \in Range(program.divisions[1].sections) : sec.name \notin { DEFAULT, HEADER }

\* -- C11

ProcedureSections == UNION { Range(d.sections) : d \in ProcedureDivisions }

HeaderName(sec) == sec.name \o <<"-","H","E","A","D","E","R">>

\* C11: a PROCEDURE Section whose text has no paragraph boundary has exactly
\* one Paragraph, <section-name>-HEADER with the calls found in the text, when
\* the text is non-blank, and no Paragraph when the text is blank.
C11_OneHeaderParagraph ==
  Done =>
    \A sec \in ProcedureSections :
      ~HasBoundary("RE_PARAGRAPH", sec.code) =>
        IF Strip(sec.code) # <<>>
        THEN /\ Len(sec.paragraphs) = 1
             /\ sec.paragraphs[1].name = HeaderName(sec)
             /\ sec.paragraphs[1].calls = TokensAt(sec.code, CountedFrom(sec.code, 1))
        ELSE sec.paragraphs = <<>>

\* -- C12

\* C12: a Division whose text has no section boundary has exactly one
\* Section, named DEFAULT, whose text is the Division's entire text.
C12_SingleDefaultSection ==
  Done =>
    \A d \in Range(program.divisions) :
      ~HasBoundary("RE_SECTION", d.code) =>
         /\ Len(d.sections) = 1
         /\ d.sections[1].name = DEFAULT
         /\ d.sections[1].code = d.code

C12_Witness ==
  /\ Done
  /\ \E d \in Range(program.divisions) :
       /\ d.name # DEFAULT
       /\ d.code # <<>>
       /\ ~HasBoundary("RE_SECTION", d.code)
       /\ d.sections[1].code = d.code

\* -- C13

HasMarker(line) == Len(line) >= 7 /\ line[7] \in { "*", "D", "d" }

\* Normalized text: no comment or debug marker, no line of 80 or more characters.
IsNormalized(text) ==
  \A line \in Range(SplitLines(text)) : Len(line) < 80 /\ ~HasMarker(line)

\* C13: clean_code applied to the lines of text it has already normalized
\* returns that text unchanged.
C13_Idempotent ==
  Done =>
    \A d \in Range(program.divisions) :
      IsNormalized(d.code) => clean_code(SplitLines(d.code)) = d.code

\* -- C14

\* The text of the i-th boundary match.
MatchText(text, matches, i) == Slice(text, matches[i].start, matches[i].end)

\* The leading header text, then each boundary match followed by its
\* segment body, for the parts of a split of the text.
Reassembled(text, matches, parts) ==
  IF matches = <<>> THEN parts[1].code
  ELSE (IF parts[1].name = HEADER THEN parts[1].code ELSE <<>>)
       \o ConcatAll([i \in 1..Len(matches) |->
              MatchText(text, matches, i) \o parts[Len(parts) - Len(matches) + i].code])

\* A text up to what the line normalizer strips.
Normalized(text) == clean_code(SplitLines(text))

\* C14: the header text, the boundary matches and the segment bodies of the
\* split by the division pattern, concatenated in order, give the original
\* text back, up to what the line normalizer strips.
C14_SplitRoundTrip ==
  pc # "call" =>
    Normalized(Reassembled(program.content, FindIter("RE_DIVISION", program.content), division_parts))
      = Normalized(program.content)

\* -- C15

\* What a kept line contributes: lines 42-47 of clean_code.
KeptForm(line) ==
  IF Len(line) >= 80 THEN RStrip(SubSeq(line, 7, 72))
  ELSE IF Len(line) > 6 THEN RStrip(SubSeq(line, 7, Len(line)))
  ELSE RStrip(line)

NonHeaderParts == SelectSeq(division_parts, LAMBDA part : part.name # HEADER)

Unmarked(lines) == SelectSeq(lines, LAMBDA line : ~HasMarker(line))

FormsOf(lines) == [k \in 1..Len(lines) |-> KeptForm(lines[k])]

\* C15: the text of a Division is made of the lines of its segment without
\* those whose 7th character is * or D, in either case, whatever their length,
\* and of all the other lines.
C15_MarkedLinesDropped ==
  Done =>
    \A k \in 1..Len(program.divisions) :
      program.divisions[k].code
        = Strip(JoinLines(FormsOf(Unmarked(SplitLines(NonHeaderParts[k].code)))))

\* -- C16

\* The lines clean_code keeps.
IsKept(line) == CleanLine(line) # <<>>

KeptLines(part) == SelectSeq(SplitLines(part.code), IsKept)

\* What a kept line contributes as claimed: only the long line is trimmed.
ClaimedForm(line) ==
  IF Len(line) >= 80 THEN RStrip(SubSeq(line, 7, 72))
  ELSE IF Len(line) > 6 THEN SubSeq(line, 7, Len(line))
  ELSE line

\* C16 as claimed: a kept line of 80 or more characters gives its columns
\* 7-72 trimmed on the right, a kept line of 7 to 79 characters its columns 7
\* onward, a kept line of 6 or fewer characters itself.
C16_ColumnsAsClaimed ==
  Done =>
    \A k \in 1..Len(program.divisions) :
      program.divisions[k].code
        = Strip(JoinLines([i \in 1..Len(KeptLines(NonHeaderParts[k])) |->
                             ClaimedForm(KeptLines(NonHeaderParts[k])[i])]))

\* C16 as amended: in each of the three cases the trailing whitespace of the
\* line's contribution is trimmed.
C16_ColumnsTrimmed ==
  Done =>
    \A k \in 1..Len(program.divisions) :
      program.divisions[k].code
        = Strip(JoinLines([i \in 1..Len(KeptLines(NonHeaderParts[k])) |->
                             KeptForm(KeptLines(NonHeaderParts[k])[i])]))

C16_Witness ==
  /\ Done
  /\ \E part \in Range(NonHeaderParts) :
       /\ \E line \in Range(KeptLines(part)) : Len(line) >= 80
       /\ \E line \in Range(KeptLines(part)) :
            Len(line) > 6 /\ Len(line) < 80 /\ RStrip(line) # line
       /\ \E line \in Range(KeptLines(part)) : Len(line) <= 6

\* -- C17

\* The same lines terminated by LF: CRLF and bare CR both become LF.
ToLF(text) ==
  [k \in 1..Len(ReplaceCRLF(text)) |->
     IF ReplaceCRLF(text)[k] = "\r" THEN "\n" ELSE ReplaceCRLF(text)[k]]

\* C17: the divisions, sections, paragraphs and call lists are those of the
\* same lines terminated by LF, whether the text ends its lines by LF, CRLF
\* or bare CR, and the text segmented holds no CR.
C17_LineEndingInsensitive ==
  Done =>
    /\ WithoutGraphs(program.divisions) = DivisionsOf(ToLF(content))
    /\ "\r" \notin Range(program.content)

\* -- C18

CanonicalNames == { KW_IDENTIFICATION, KW_ENVIRONMENT, KW_DATA, KW_PROCEDURE }

\* Does the match begin, after its blanks, with PROCEDURE in any letter case?
IsProcedureHeader(text, m) == HasLit(text, RunEnd(text, m.start, BlankChars), KW_PROCEDURE)

DivisionMatches == FindIter("RE_DIVISION", program.content)

\* C18: when a division boundary matches, there is one Division per match,
\* each named IDENTIFICATION, ENVIRONMENT, DATA or PROCEDURE, and the
\* Division of every procedure-kind header is named exactly PROCEDURE.
C18_CanonicalNames ==
  (Done /\ DivisionMatches # <<>>) =>
     /\ Len(program.divisions) = Len(DivisionMatches)
     /\ \A k \in 1..Len(DivisionMatches) :
          /\ program.divisions[k].name \in CanonicalNames
          /\ IsProcedureHeader(program.content, DivisionMatches[k])
               => program.divisions[k].name = KW_PROCEDURE

C18_Witness ==
  /\ Done
  /\ \E k \in 1..Len(DivisionMatches) :
       /\ IsProcedureHeader(program.content, DivisionMatches[k])
       /\ DivisionMatches[k].name # Upper(DivisionMatches[k].name)
       /\ Upper(DivisionMatches[k].name) # KW_PROCEDURE
       /\ program.divisions[k].name = KW_PROCEDURE

\* -- C19

\* C19: every Division has at least one Section; only a Division named
\* PROCEDURE has Paragraphs; the call graph is set on every Division named
\* PROCEDURE and is None on every other.
C19_SectionsEverywhere ==
  Done =>
    \A d \in Range(program.divisions) :
      /\ Len(d.sections) >= 1
      /\ d.name # PROCEDURE =>
           /\ \A sec \in Range(d.sections) : sec.paragraphs = <<>>
           /\ d.call_graph_mermaid = None
      /\ d.name = PROCEDURE =>
           /\ d.call_graph_mermaid # None
           /\ RenderedLines(d)[1] = <<"g","r","a","p","h"," ","T","D",";">>

C19_Witness ==
  /\ Done
  /\ \E d \in ProcedureDivisions : \E sec \in Range(d.sections) : sec.paragraphs # <<>>
  /\ \E d \in Range(program.divisions) :
       /\ d.name \in { KW_IDENTIFICATION, KW_ENVIRONMENT, KW_DATA }
       /\ Len(d.sections) >= 1
       /\ d.call_graph_mermaid = None

\* -- C20

\* C20: the Program returned is the one every other invocation on the same
\* arguments returns: the call graph of each PROCEDURE Division is the graph
\* rendered under every order in which the node set may be visited.
C20_Deterministic ==
  Done =>
    \A d \in ProcedureDivisions : \A node_order \in IterationOrders(NodeNames(d)) :
      d.call_graph_mermaid = generate_mermaid_graph(d, node_order)

\* -- C23

\* 1 when text precedes the first match, else 0: the place of a HEADER part.
LeadCount(matches) == IF matches[1].start > 1 THEN 1 ELSE 0

\* The parts of a split: one DEFAULT part with the whole text without a
\* match, else one part per match, named by it, after one HEADER part exactly
\* when the first match is not at the start of the text.
IsSplitOf(parts, text, matches) ==
  IF matches = <<>>
  THEN parts = << [name |-> DEFAULT, code |-> text] >>
  ELSE /\ Len(parts) = Len(matches) + LeadCount(matches)
       /\ LeadCount(matches) = 1 => parts[1].name = HEADER
       /\ \A i \in 1..Len(matches) :
            parts[LeadCount(matches) + i].name = Upper(Strip(matches[i].name))

SectionParts(d) == [k \in 1..Len(d.sections) |-> [name |-> d.sections[k].name, code |-> d.sections[k].code]]

\* C23: split_by_regex returns the named segments of the matches in order,
\* preceded by one HEADER segment exactly when the first match is not at
\* offset 0, and one DEFAULT segment with the whole text without a match.
C23_SegmentsOfMatches ==
  /\ pc # "call" =>
       IsSplitOf(division_parts, program.content, FindIter("RE_DIVISION", program.content))
  /\ Done =>
       \A d \in Range(program.divisions) :
         IsSplitOf(SectionParts(d), d.code, FindIter("RE_SECTION", d.code))

C23_Witness ==
  /\ pc # "call"
  /\ Len(division_parts) = 2
  /\ division_parts[1].name = HEADER
  /\ division_parts[2].name = PROCEDURE \o <<" ","U","S","I","N","G"," ","X">>
  /\ DivisionMatches[1].name # division_parts[2].name

\* -- C24

\* The text between the end of the i-th match and the start of the next.
Between(text, matches, i) ==
  Slice(text, matches[i].end,
        IF i < Len(matches) THEN matches[i + 1].start ELSE Len(text) + 1)

\* C24: the body of every named segment of the split by the division pattern
\* is exactly the text between the end of its match and the start of the
\* next match, or the end of the text.
C24_BodyBetweenMatches ==
  (pc # "call" /\ DivisionMatches # <<>>) =>
     \A i \in 1..Len(DivisionMatches) :
       division_parts[Len(division_parts) - Len(DivisionMatches) + i].code
         = Between(program.content, DivisionMatches, i)

\* -- C25

ParagraphMatches(sec) == FindIter("RE_PARAGRAPH", sec.code)

\* The text of a section before its first paragraph header.
LeadingText(sec) == Slice(sec.code, 1, ParagraphMatches(sec)[1].start)

SectionsWithBoundary ==
  { sec \in ProcedureSections : ParagraphMatches(sec) # <<>> }

\* C25: in a PROCEDURE Section with a paragraph boundary, non-blank text
\* before the first header makes the first Paragraph, <section-name>-HEADER,
\* with that text and its calls; with nothing before the first header there
\* is no such Paragraph; no Paragraph is named HEADER or DEFAULT but for a
\* header of that name.
C25_HeaderParagraph ==
  Done =>
    \A sec \in SectionsWithBoundary :
      /\ Strip(LeadingText(sec)) # <<>> =>
           sec.paragraphs[1] =
             [name |-> HeaderName(sec), code |-> LeadingText(sec),
              calls |-> TokensAt(LeadingText(sec), CountedFrom(LeadingText(sec), 1))]
      /\ LeadingText(sec) = <<>> =>
           \A para \in Range(sec.paragraphs) : para.name # HeaderName(sec)
      /\ \A para \in Range(sec.paragraphs) :
           para.name \in { HEADER, DEFAULT } =>
             \E k \in 1..Len(ParagraphMatches(sec)) :
               Upper(ParagraphMatches(sec)[k].name) = para.name

\* -- C26

\* The paragraphs of a section after the one made of its leading text.
AfterLeading(sec) ==
  IF LeadingText(sec) = <<>> THEN sec.paragraphs ELSE Tail(sec.paragraphs)

\* C26: every paragraph-boundary match of a PROCEDURE Section gives one
\* Paragraph, named by the matched identifier uppercased, in order, whatever
\* the identifier, repeated or spelled HEADER or DEFAULT.
C26_ParagraphPerMatch ==
  Done =>
    \A sec \in SectionsWithBoundary :
      [k \in 1..Len(AfterLeading(sec)) |-> AfterLeading(sec)[k].name]
        = [k \in 1..Len(ParagraphMatches(sec)) |-> Upper(ParagraphMatches(sec)[k].name)]

\* -- C27

\* The source lines of the body of the i-th division header: the lines after
\* the header's own line.
BodyLinesOf(text, matches, i) == Tail(SplitLines(Between(text, matches, i)))

\* C27: the text of a Division is its body's lines normalized at their source
\* columns, the first line like every other (for headers alone on their line).
C27_FirstLineAtItsColumns ==
  (Done /\ DivisionMatches # <<>>) =>
     \A i \in 1..Len(DivisionMatches) :
       Strip(Head(SplitLines(Between(program.content, DivisionMatches, i)))) = <<>> =>
         program.divisions[i].code = clean_code(BodyLinesOf(program.content, DivisionMatches, i))

\* -- C21

\* The tuple that identifies an entry of the vector store.
TupleOf(row) ==
  << row.vector_type, row.program_id, row.division_id, row.section_id, row.paragraph_id >>

\* The tuple a call asks for, an omitted identifier counting as NULL.
TupleOfCall(vector_type, fk_ids) ==
  << vector_type >> \o
  [k \in 1..4 |->
     LET key == Hierarchy[k]
     IN IF key \in DOMAIN fk_ids THEN fk_ids[key] ELSE NULL]

StoredTuples(cobol_vectors) == { TupleOf(cobol_vectors[k]) : k \in 1..Len(cobol_vectors) }

OneEntryPerTuple(cobol_vectors) ==
  \A i, j \in 1..Len(cobol_vectors) :
    TupleOf(cobol_vectors[i]) = TupleOf(cobol_vectors[j]) => i = j

Called == last.returned # "none"

WasStored == TupleOfCall(last.vector_type, last.fk_ids) \in StoredTuples(last.before)

\* The call that has just ended found its tuple stored, computed no
\* embedding, inserted nothing and returned False.
SkippedCall ==
  /\ last.returned = "False"
  /\ ~last.embedded
  /\ conn.cobol_vectors = last.before

\* The call that has just ended inserted exactly one entry, with its tuple,
\* and returned True.
CreatingCall ==
  /\ last.returned = "True"
  /\ Len(conn.cobol_vectors) = Len(last.before) + 1
  /\ SubSeq(conn.cobol_vectors, 1, Len(last.before)) = last.before
  /\ TupleOf(conn.cobol_vectors[Len(conn.cobol_vectors)])
       = TupleOfCall(last.vector_type, last.fk_ids)

RaisingCall ==
  /\ last.returned = "raised"
  /\ last.embedded
  /\ conn.cobol_vectors = last.before

AllNull == \A k \in 2..5 : TupleOfCall(last.vector_type, last.fk_ids)[k] = NULL

Executed ==
  [k \in 1..Cardinality({ i \in 1..Len(events) : events[i][1] = "start" }) |->
     events[CHOOSE i \in 1..Len(events) :
              /\ events[i][1] = "start"
              /\ Cardinality({ j \in 1..i : events[j][1] = "start" }) = k][2]]

IsPrefix(s, t) == Len(s) <= Len(t) /\ SubSeq(t, 1, Len(s)) = s

\* The steps a command line asks for.
Requested ==
  IF argv = << "--all" >> THEN << "setup", "ingest", "process", "stories" >>
  ELSE IF Len(argv) = 2 /\ argv[1] = "--only" THEN << argv[2] >>
  ELSE IF Len(argv) = 2 /\ argv[1] = "--start-from" /\ argv[2] = "setup"
  THEN << "setup", "ingest", "process", "stories" >>
  ELSE IF Len(argv) = 2 /\ argv[1] = "--start-from" /\ argv[2] = "ingest"
  THEN << "ingest", "process", "stories" >>
  ELSE IF Len(argv) = 2 /\ argv[1] = "--start-from" /\ argv[2] = "process"
  THEN << "process", "stories" >>
  ELSE IF Len(argv) = 2 /\ argv[1] = "--start-from" /\ argv[2] = "stories"
  THEN << "stories" >>
  ELSE <<>>

IsFailure(event) == event[1] \in { "raised", "exited" }

\* The steps executed so far are the first of the requested ones; a step has
\* started only after the step before it returned; after a step's exception
\* nothing else has happened and the status is 1; the run ends with status 0
\* only when every requested step has returned.
StepsInOrder ==
  /\ IsPrefix(Executed, Requested)
  /\ \A i \in 2..Len(events) :
       events[i][1] = "start" => events[i - 1][1] = "returned"
  /\ \A i \in 1..Len(events) :
       events[i][1] # "start" => (i > 1 /\ events[i - 1] = << "start", events[i][2] >>)
  /\ \A i \in 1..Len(events) :
       IsFailure(events[i]) => (i = Len(events) /\ exit_status = "1")
  /\ (exit_status = "0" /\ Requested # <<>>) =>
       (Executed = Requested /\ events[Len(events)][1] = "returned")
  /\ (exit_status = "1" /\ Requested # <<>>) => IsFailure(events[Len(events)])

\* C22: the steps executed are a contiguous run of the fixed order chosen by
\* the command line, each started after the one before it returned; a step's
\* exception ends the run with status 1; and the run comes to its end.
C22_StepsInOrder ==
  /\ []StepsInOrder
  /\ (Requested # <<>>) ~> (exit_status # "none")

C22_Witness ==
  /\ argv = << "--start-from", "ingest" >>
  /\ Executed = << "ingest", "process" >>
  /\ events[Len(events)] = << "raised", "process" >>
  /\ exit_status = "1"

\* -- C28

IngestEnded == ingest_pc \in { "returned", "raised" }

\* C28: run_ingest attempts every discovered COBOL file in turn, a failure
\* on one file not stopping the others: when it has ended, it has returned
\* and the try block was entered once for each file of the list, in order.
C28_EveryFileAttempted ==
  IngestEnded =>
    /\ ingest_pc = "returned"
    /\ attempted = files_to_process

\* -- C30

StageOf(table_name) == CHOOSE k \in 1..Len(StageTables) : StageTables[k] = table_name

IsSummarized(entry) == entry.table \in Range(StageTables)

\* The entries of the elements a run has summarized.
SummarizedIn(r) ==
  { k \in 1..Len(handled) : handled[k].run = r /\ IsSummarized(handled[k]) }

\* The run has completed without an exception.
Completed(r) ==
  \/ r = run /\ state = "complete"
  \/ \E k \in 1..Len(handled) : handled[k].run = r /\ handled[k].table = "complete"

\* The 'code' entries of the vector store for an element of a table.
CodeEntries(tables, table_name, row) ==
  { k \in 1..Len(tables.cobol_vectors) :
      /\ tables.cobol_vectors[k].vector_type = <<"c","o","d","e">>
      /\ << tables.cobol_vectors[k].program_id, tables.cobol_vectors[k].division_id,
            tables.cobol_vectors[k].section_id, tables.cobol_vectors[k].paragraph_id >>
           = Tail(TupleOfCall(<<"c","o","d","e">>, ProcessKeys(tables, table_name, row))) }

\* Every element has a summary and exactly one 'code' entry.
AllProcessed(tables) ==
  \A table_name \in Range(StageTables) :
    \A row \in Range(tables[table_name]) :
      /\ row.summary # None
      /\ Cardinality(CodeEntries(tables, table_name, row)) = 1

\* C30: process_unsummarized_data summarizes only elements whose summary is
\* NULL, divisions, then sections, then paragraphs, each stage committed on
\* its own; after a run without exception every element has a summary and
\* exactly one 'code' entry, and the run that follows summarizes nothing and
\* adds no vector.
C30_SummarizedOnce ==
  /\ \A k \in 1..Len(handled) : IsSummarized(handled[k]) => handled[k].was = None
  /\ \A i, j \in SummarizedIn(run) :
       i < j => StageOf(handled[i].table) <= StageOf(handled[j].table)
  /\ state = "select" => conn = db
  /\ \A k \in SummarizedIn(run) :
       StageOf(handled[k].table) < stage =>
         RowOf(db[handled[k].table], IdColumn(handled[k].table), handled[k].id).summary # None
  /\ state = "complete" => AllProcessed(db)
  /\ (run > 1 /\ Completed(run - 1)) =>
       /\ SummarizedIn(run) = {}
       /\ conn.cobol_vectors = db.cobol_vectors
       /\ AllProcessed(db)

\* A second run has completed after a first one that completed, on a program
\* with rows in every table.
C30_Witness ==
  /\ run = 2
  /\ state = "complete"
  /\ Completed(1)
  /\ Cardinality(SummarizedIn(1)) = 7
  /\ Len(db.cobol_vectors) = 7
  /\ \E k \in 1..Len(db.cobol_divisions) : StartsWith(db.cobol_divisions[k].summary, <<"E","r","r","o","r",":">>)

\* -- C29

\* The components run_generate_stories is to write a story for: the rows
\* with a usable summary and the graph vectors.
Components(tables) ==
  Len(SelectSeq(tables.cobol_divisions, HasUsableSummary))
  + Len(SelectSeq(tables.cobol_sections, HasUsableSummary))
  + Len(SelectSeq(tables.cobol_paragraphs, HasUsableSummary))
  + Len(SelectSeq(tables.cobol_vectors, LAMBDA row : row.vector_type = <<"g","r","a","p","h">>))

UserStories(tables) == SelectSeq(tables.cobol_vectors, LAMBDA row : row.vector_type = <<"u","s","e","r","_","s","t","o","r","y">>)

EverySuccess ==
  \A k \in 1..Len(handled) : handled[k].outcome \in { "created", "skipped" }

\* C29: after run_generate_stories on a store without user_story entry, every
\* story generation succeeding, every component has its own user_story
\* entry: as many entries are created as there are components.
C29_StoryPerComponent ==
  (state = "complete" /\ EverySuccess) =>
     /\ Len(handled) = Components(db)
     /\ \A k \in 1..Len(handled) : handled[k].outcome = "created"
     /\ Len(UserStories(db)) = Components(db)

====
